---------------------------- MODULE Spec2Model ----------------------------
(***************************************************************************)
(* Pulse Habit Tracker (src/habittracker.py, src/pages/habittracker.py):   *)
(* the streak engine, the cached StreakRecord kept by the render pass and  *)
(* the period aggregator of the analytics tab.                             *)
(*                                                                         *)
(* A datetime.date is modelled by its proleptic Gregorian ordinal          *)
(* (date.toordinal()), a timedelta by an integer number of days, and a log *)
(* key by the string strftime("%Y-%m-%d") produces.                        *)
(*                                                                         *)
(* The specifications of the module share one list of variables:          *)
(*   SpecStreak     compute_current_streak / compute_longest_streak /      *)
(*                  update_streaks_for_habit on every log of a window      *)
(*   Spec           the render passes of one session of the tracker page   *)
(*   SpecAnalytics  the Weekly / Monthly / Yearly aggregation              *)
(* and further ones, each introduced by the section that defines it, for   *)
(* the goals, the journal, the to-do list, the summary request, loading    *)
(* and saving, several sessions and users, shift_month, the grid toggle,   *)
(* the habit maps, the period navigation and the streaks over time.        *)
(***************************************************************************)
EXTENDS Integers, Sequences, FiniteSets, TLC

VARIABLES
    \* ---- SpecStreak: one call of update_streaks_for_habit ----
    habit_data,     \* the outcome log handed to the streak functions
    today,          \* datetime.date.today() of the pass (all specifications)
    impl,           \* which compute_current_streak runs: "main" or "pages"
    pc,             \* position inside compute_current_streak / the caller
    d,              \* compute_current_streak's local d
    streak,         \* compute_current_streak's local streak
    iters,          \* number of loop iterations entered so far
    inspected,      \* the days whose key the loop has looked up so far
    rec,            \* what update_streaks_for_habit produced
    \* ---- Spec: the session of the tracker page ----
    data,           \* st.session_state.data
    store,          \* the blob held by the database for the user
    pass_today,     \* today of the last completed render pass (0: none yet)
    now_hour,       \* the hour of datetime.datetime.now()
    uuids,          \* the number of ids uuid.uuid4() has produced
    \* ---- SpecAnalytics ----
    tracker_week,   \* st.session_state.tracker_week
    tracker_month,  \* st.session_state.tracker_month
    tracker_year,   \* st.session_state.tracker_year
    clicks,         \* number of Previous / Next clicks so far
    view,           \* what the analytics tab computed in the last pass
    \* ---- the specifications of a single call ----
    call,           \* the function or handler called, its arguments and result
    \* ---- the specifications with several users or browser sessions ----
    db,             \* the database: for each user id the blob at users/<id>/data
    sessions        \* for each browser session its st.session_state

streakVars == <<habit_data, impl, pc, d, streak, iters, inspected, rec>>
appVars == <<data, store, pass_today, now_hour, uuids>>
anVars == <<tracker_week, tracker_month, tracker_year, clicks, view>>
callVars == <<call>>
multiVars == <<db, sessions>>
vars == <<today, streakVars, appVars, anVars, callVars, multiVars>>

-----------------------------------------------------------------------------
(* Bounds of the model                                                     *)

\* SpecStreak: the log's dates and today range over Day0 .. Day0 + MaxSpan
MaxSpan == 4
\* Spec: the clock advances at most this many days past Day0
MaxAdvance == 2
\* Spec: the user clicks only the first MaxCell + 1 cells of a habit's week row
MaxCell == 1
\* Spec: the logs of the session hold at most this many entries in total
MaxEntries == 2
\* Spec / SpecAnalytics: weekly goals range over 1 .. MaxGoal
MaxGoal == 2
\* SpecAnalytics: Previous / Next are clicked at most this many times
MaxNav == 1
\* SpecGoal: the largest weekly goal
MaxWeeklyGoal == 61
\* SpecFilter: the to-do list holds at most this many tasks; SpecTodo: at
\* most this many tasks are ever added
MaxTasks == 2
\* SpecShift: months are shifted by at most this many either way
MaxDelta == 25
\* SpecNav: Previous / Next are clicked at most this many times
MaxClicks == 3

-----------------------------------------------------------------------------
(* The calendar: datetime.date, calendar.isleap, calendar.monthrange       *)

\* the years the model's dates can fall in
Years == 2020 .. 2030

isleap(y) == (y % 4 = 0) /\ ((y % 100 # 0) \/ (y % 400 = 0))

\* calendar.monthrange(y, m)[1]
monthrange(y, m) ==
    IF m = 2 THEN (IF isleap(y) THEN 29 ELSE 28)
    ELSE IF m \in {4, 6, 9, 11} THEN 30 ELSE 31

\* days of the years before y
DaysBeforeYear(y) ==
    LET p == y - 1 IN p * 365 + (p \div 4) - (p \div 100) + (p \div 400)

RECURSIVE DaysBeforeMonth(_, _)
DaysBeforeMonth(y, m) ==
    IF m = 1 THEN 0 ELSE DaysBeforeMonth(y, m - 1) + monthrange(y, m - 1)

\* datetime.date(y, m, dd), as its ordinal
date(y, m, dd) == DaysBeforeYear(y) + DaysBeforeMonth(y, m) + dd

\* date_obj.year, date_obj.month, date_obj.day
year(n) == CHOOSE y \in Years : DaysBeforeYear(y) < n /\ n <= DaysBeforeYear(y + 1)
month(n) ==
    LET y == year(n) IN
    CHOOSE m \in 1 .. 12 :
        /\ date(y, m, 1) <= n
        /\ n <= date(y, m, monthrange(y, m))
day(n) == n - date(year(n), month(n), 1) + 1

\* date_obj.weekday(): Monday is 0
weekday(n) == (n + 6) % 7

\* the first day of the model's clock: Monday 2024-12-30, so that the week
\* Mon 2024-12-30 .. Sun 2025-01-05 spans a month and a year boundary
Day0 == date(2024, 12, 30)

-----------------------------------------------------------------------------
(* Log keys: strftime("%Y-%m-%d") and strptime(.., "%Y-%m-%d")             *)

Pad2(n) == IF n < 10 THEN "0" \o ToString(n) ELSE ToString(n)

\* the dates whose keys a modelled log can hold
KeyDays == (Day0 - 14) .. (Day0 + 14)

FormatDate(n) == ToString(year(n)) \o "-" \o Pad2(month(n)) \o "-" \o Pad2(day(n))

\* the formatted KeyDays, computed once
DateStr == [n \in KeyDays |-> FormatDate(n)]

\* d.strftime("%Y-%m-%d")
strftime(n) == IF n \in KeyDays THEN DateStr[n] ELSE FormatDate(n)

\* a key that strptime rejects
BadKey == "not-a-date"

\* the date each formatted key parses back to, computed once
ParseTable == [s \in {DateStr[n] : n \in KeyDays} |-> CHOOSE n \in KeyDays : DateStr[n] = s]

\* datetime.datetime.strptime(s, "%Y-%m-%d") raises ValueError on s
strptime_raises(s) == s \notin DOMAIN ParseTable

\* datetime.datetime.strptime(s, "%Y-%m-%d").date(), when it does not raise
strptime(s) == ParseTable[s]

Outcomes == {"succeeded", "failed"}

\* habit_data.get(k): the outcome, or "None" for an absent key
Get(log, k) == IF k \in DOMAIN log THEN log[k] ELSE "None"

\* how a call ends: with a value, or with an exception
Return(v) == [exc |-> "", value |-> v]
Raise(e) == [exc |-> e]

-----------------------------------------------------------------------------
(* The streak engine, src/habittracker.py lines 258-309                    *)

\* CurrentBody with the outcome test dropped: any logged day counts
CurrentBody_AnyEntry(log, n, s) ==
    IF strftime(n) \in DOMAIN log
    THEN [brk |-> FALSE, streak |-> s + 1]
    ELSE [brk |-> TRUE, streak |-> s]

\* one iteration of compute_current_streak's while loop at d = n, streak = s
\* (lines 264-269): whether it breaks, and the streak it leaves
CurrentBody(log, n, s) ==
    LET d_str == strftime(n) IN
    IF d_str \in DOMAIN log /\ log[d_str] = "succeeded"
    THEN [brk |-> FALSE, streak |-> s + 1]
    ELSE [brk |-> TRUE, streak |-> s]

RECURSIVE CurrentLoop(_, _, _)
CurrentLoop(log, n, s) ==
    LET b == CurrentBody(log, n, s) IN
    IF b.brk THEN b.streak ELSE CurrentLoop(log, n - 1, b.streak)

\* CurrentStart without the step over an unmarked today (Policy A)
CurrentStart_Strict(log, tdy) == tdy

\* where the loop starts (lines 260-262): today, or today - 1 when today is unmarked
CurrentStart(log, tdy) ==
    IF strftime(tdy) \notin DOMAIN log THEN tdy - 1 ELSE tdy

compute_current_streak(log, tdy) == CurrentLoop(log, CurrentStart(log, tdy), 0)

\* PagesBody stepping over a today that is logged but not succeeded
PagesBody_TodayLenient(log, tdy, n, s) ==
    LET d_str == strftime(n) IN
    IF n = tdy
    THEN IF d_str \in DOMAIN log /\ log[d_str] = "succeeded"
         THEN [brk |-> FALSE, streak |-> s + 1]
         ELSE [brk |-> FALSE, streak |-> s]
    ELSE IF d_str \notin DOMAIN log \/ log[d_str] # "succeeded"
         THEN [brk |-> TRUE, streak |-> s]
         ELSE [brk |-> FALSE, streak |-> s + 1]

\* src/pages/habittracker.py: one iteration of its while loop (lines 95-118),
\* which special-cases d == today inside the loop
PagesBody(log, tdy, n, s) ==
    LET d_str == strftime(n) IN
    IF n = tdy
    THEN IF d_str \in DOMAIN log
         THEN IF log[d_str] = "succeeded"
              THEN [brk |-> FALSE, streak |-> s + 1]
              ELSE [brk |-> TRUE, streak |-> s]
         ELSE [brk |-> FALSE, streak |-> s]
    ELSE IF d_str \notin DOMAIN log \/ log[d_str] # "succeeded"
         THEN [brk |-> TRUE, streak |-> s]
         ELSE [brk |-> FALSE, streak |-> s + 1]

RECURSIVE PagesLoop(_, _, _, _)
PagesLoop(log, tdy, n, s) ==
    LET b == PagesBody(log, tdy, n, s) IN
    IF b.brk THEN b.streak ELSE PagesLoop(log, tdy, n - 1, b.streak)

\* src/pages/habittracker.py compute_current_streak (the code after its
\* return statement is unreachable)
pages_compute_current_streak(log, tdy) == PagesLoop(log, tdy, tdy, 0)

\* LongestLoop returning longest without the final max(longest, current)
RECURSIVE LongestLoop_NoFinalMax(_, _, _, _, _)
LongestLoop_NoFinalMax(log, tdy, n, longest, current) ==
    IF n <= tdy
    THEN IF Get(log, strftime(n)) = "succeeded"
         THEN LongestLoop_NoFinalMax(log, tdy, n + 1, longest, current + 1)
         ELSE LongestLoop_NoFinalMax(log, tdy, n + 1,
                                     IF longest >= current THEN longest ELSE current, 0)
    ELSE longest

\* LongestLoop resetting the run on a failed day only, not on an unmarked one
RECURSIVE LongestLoop_GapKeeps(_, _, _, _, _)
LongestLoop_GapKeeps(log, tdy, n, longest, current) ==
    IF n <= tdy
    THEN IF Get(log, strftime(n)) = "succeeded"
         THEN LongestLoop_GapKeeps(log, tdy, n + 1, longest, current + 1)
         ELSE IF Get(log, strftime(n)) = "failed"
              THEN LongestLoop_GapKeeps(log, tdy, n + 1,
                                        IF longest >= current THEN longest ELSE current, 0)
              ELSE LongestLoop_GapKeeps(log, tdy, n + 1, longest, current)
    ELSE IF longest >= current THEN longest ELSE current

\* LongestLoop scanning one day past today
RECURSIVE LongestLoop_PastToday(_, _, _, _, _)
LongestLoop_PastToday(log, tdy, n, longest, current) ==
    IF n <= tdy + 1
    THEN IF Get(log, strftime(n)) = "succeeded"
         THEN LongestLoop_PastToday(log, tdy, n + 1, longest, current + 1)
         ELSE LongestLoop_PastToday(log, tdy, n + 1,
                                    IF longest >= current THEN longest ELSE current, 0)
    ELSE IF longest >= current THEN longest ELSE current

\* LongestLoop stopping the day before today
RECURSIVE LongestLoop_BeforeToday(_, _, _, _, _)
LongestLoop_BeforeToday(log, tdy, n, longest, current) ==
    IF n < tdy
    THEN IF Get(log, strftime(n)) = "succeeded"
         THEN LongestLoop_BeforeToday(log, tdy, n + 1, longest, current + 1)
         ELSE LongestLoop_BeforeToday(log, tdy, n + 1,
                                      IF longest >= current THEN longest ELSE current, 0)
    ELSE IF longest >= current THEN longest ELSE current

\* the while loop of compute_longest_streak, entered at day n
RECURSIVE LongestLoop(_, _, _, _, _)
LongestLoop(log, tdy, n, longest, current) ==
    IF n <= tdy
    THEN IF Get(log, strftime(n)) = "succeeded"
         THEN LongestLoop(log, tdy, n + 1, longest, current + 1)
         ELSE LongestLoop(log, tdy, n + 1,
                          IF longest >= current THEN longest ELSE current, 0)
    ELSE IF longest >= current THEN longest ELSE current

\* min(dates)
MinOf(S) == CHOOSE n \in S : \A m \in S : n <= m

\* the list comprehension parses every key, so one bad key raises ValueError
compute_longest_streak(log, tdy) ==
    IF \E k \in DOMAIN log : strptime_raises(k)
    THEN Raise("ValueError")
    ELSE LET dates == {strptime(k) : k \in {j \in DOMAIN log : strptime(j) <= tdy}} IN
         IF dates = {}
         THEN Return(0)
         ELSE Return(LongestLoop(log, tdy, MinOf(dates), 0, 0))

\* update_streaks_for_habit up to the assignment of data_to_store
data_to_store(log, tdy) ==
    LET current_streak == compute_current_streak(log, tdy)
        longest_streak == compute_longest_streak(log, tdy)
    IN  IF longest_streak.exc # ""
        THEN Raise(longest_streak.exc)
        ELSE Return([current |-> current_streak,
                     longest |-> longest_streak.value,
                     last_update |-> strftime(tdy)])

-----------------------------------------------------------------------------
(* SpecStreak: update_streaks_for_habit on every log of the window, with   *)
(* compute_current_streak executed one loop iteration at a time            *)

StreakDays == Day0 .. (Day0 + MaxSpan)
StreakKeys == {strftime(n) : n \in StreakDays} \cup {BadKey}

\* every log over the window's keys, with or without the unparseable key
StreakLogs == UNION {[K -> Outcomes] : K \in SUBSET StreakKeys}

Pending == [exc |-> "pending"]
EmptyData == [habits |-> <<>>, goals |-> <<>>, streaks |-> <<>>, habit_colors |-> <<>>]
NoView == <<>>
NoCall == <<>>

ClockIdle ==
    /\ now_hour = 9
    /\ uuids = 0

AppIdle ==
    /\ data = EmptyData
    /\ store = EmptyData
    /\ pass_today = 0
    /\ ClockIdle

AnalyticsIdle ==
    /\ tracker_week = 0
    /\ tracker_month = 0
    /\ tracker_year = 0
    /\ clicks = 0
    /\ view = NoView

CallIdle == call = NoCall

MultiIdle ==
    /\ db = <<>>
    /\ sessions = <<>>

StreakIdle ==
    /\ habit_data = <<>>
    /\ impl = "main"
    /\ pc = "idle"
    /\ d = 0
    /\ streak = 0
    /\ iters = 0
    /\ inspected = {}
    /\ rec = Pending

InitStreak ==
    /\ habit_data \in StreakLogs
    /\ today \in StreakDays
    /\ impl \in {"main", "pages"}
    /\ pc = "call"
    /\ d = 0
    /\ streak = 0
    /\ iters = 0
    /\ inspected = {}
    /\ rec = Pending
    /\ AppIdle
    /\ AnalyticsIdle
    /\ CallIdle
    /\ MultiIdle

\* compute_current_streak is entered: streak = 0 and d set (lines 259-262;
\* pages lines 91-92)
CurEnter ==
    /\ pc = "call"
    /\ streak' = 0
    /\ d' = IF impl = "main" THEN CurrentStart(habit_data, today) ELSE today
    /\ pc' = "loop"
    /\ UNCHANGED <<habit_data, today, impl, iters, inspected, rec>>
    /\ UNCHANGED <<appVars, anVars, callVars, multiVars>>

\* one iteration of the while True loop (lines 263-269; pages lines 94-118)
CurIterate ==
    /\ pc = "loop"
    /\ LET b == IF impl = "main"
                THEN CurrentBody(habit_data, d, streak)
                ELSE PagesBody(habit_data, today, d, streak)
       IN  /\ streak' = b.streak
           /\ d' = IF b.brk THEN d ELSE d - 1
           /\ pc' = IF b.brk THEN "returned" ELSE "loop"
    /\ iters' = iters + 1
    /\ inspected' = inspected \cup {d}
    /\ UNCHANGED <<habit_data, today, impl, rec>>
    /\ UNCHANGED <<appVars, anVars, callVars, multiVars>>

\* the rest of update_streaks_for_habit (lines 303-308): compute_longest_streak,
\* then the record is built; a ValueError leaves the function before that
StoreRecord ==
    /\ pc = "returned"
    /\ LET longest_streak == compute_longest_streak(habit_data, today) IN
       IF longest_streak.exc # ""
       THEN /\ pc' = "raised"
            /\ rec' = Raise(longest_streak.exc)
       ELSE /\ pc' = "stored"
            /\ rec' = Return([current |-> streak,
                              longest |-> longest_streak.value,
                              last_update |-> strftime(today)])
    /\ UNCHANGED <<habit_data, today, impl, d, streak, iters, inspected>>
    /\ UNCHANGED <<appVars, anVars, callVars, multiVars>>

NextStreak == CurEnter \/ CurIterate \/ StoreRecord

SpecStreak == InitStreak /\ [][NextStreak]_vars

\* the walk ends, given that the interpreter keeps executing it
FairStreak == SpecStreak /\ WF_vars(NextStreak)

-----------------------------------------------------------------------------
(* What the claims about the streak engine are stated in                   *)

\* day n is marked succeeded in the log
Marked(log, n) == Get(log, strftime(n)) = "succeeded"

\* every key of the log is a date
ValidLog(log) == BadKey \notin DOMAIN log

\* the window's days that have an entry in the log
LoggedDays(log) == {n \in StreakDays : strftime(n) \in DOMAIN log}

\* the number of consecutive days marked succeeded that end at day n
RunEndingAt(log, n) ==
    CHOOSE k \in 0 .. (MaxSpan + 2) :
        /\ \A i \in 0 .. (k - 1) : Marked(log, n - i)
        /\ ~ Marked(log, n - k)

\* the length of the longest run of consecutive marked days inside a .. b
LongestRun(log, a, b) ==
    LET lens == {k \in 1 .. (b - a + 1) :
                    \E n \in a .. (b - k + 1) : \A i \in 0 .. (k - 1) : Marked(log, n + i)}
    IN  IF lens = {} THEN 0 ELSE CHOOSE k \in lens : \A j \in lens : j <= k

\* the log without its entries dated after tdy
PastOf(log, tdy) ==
    LET keep == {strftime(n) : n \in {m \in StreakDays : m <= tdy}} \cup {BadKey}
    IN  [k \in DOMAIN log \cap keep |-> log[k]]

\* every log made of entries dated after tdy only
FutureLogs(tdy) ==
    UNION {[K -> Outcomes] :
              K \in SUBSET {strftime(n) : n \in {m \in StreakDays : m > tdy}}}

\* the log g laid over the log f
Overlay(f, g) ==
    [k \in DOMAIN f \cup DOMAIN g |-> IF k \in DOMAIN g THEN g[k] ELSE f[k]]

Returned == pc \in {"returned", "stored", "raised"}

\* C1: for every log of dates and every today,
\* 0 <= compute_current_streak <= compute_longest_streak, and these are the
\* two numbers update_streaks_for_habit puts in the record
C1_StreakBound ==
    ValidLog(habit_data) =>
        LET c == compute_current_streak(habit_data, today)
            l == compute_longest_streak(habit_data, today)
        IN  /\ l.exc = ""
            /\ 0 <= c
            /\ c <= l.value
            /\ (pc = "stored" /\ impl = "main") =>
                   (rec.value.current = c /\ rec.value.longest = l.value)

\* C1's case: a record stored for a log with a failed entry, an unmarked gap
\* and an entry after today, and a running streak
C1_Witness ==
    /\ pc = "stored"
    /\ impl = "main"
    /\ rec.value.current >= 1
    /\ \E k \in DOMAIN habit_data : habit_data[k] = "failed"
    /\ \E n \in LoggedDays(habit_data) : n > today
    /\ \E a \in LoggedDays(habit_data) :
          \E g \in StreakDays : a < g /\ g < today /\ g \notin LoggedDays(habit_data)

\* C2: Policy B. With today absent the current streak is the run of succeeded
\* days ending at today - 1 (n when today-1 .. today-n are succeeded and
\* today-n-1 is not, 0 when today-1 is not succeeded); with today present it
\* is the run ending at today
C2_PolicyB ==
    LET c == compute_current_streak(habit_data, today) IN
    /\ strftime(today) \notin DOMAIN habit_data =>
          /\ c = RunEndingAt(habit_data, today - 1)
          /\ \A n \in 0 .. MaxSpan :
                ((\A i \in 1 .. n : Marked(habit_data, today - i))
                    /\ ~ Marked(habit_data, today - n - 1)) => c = n
    /\ strftime(today) \in DOMAIN habit_data => c = RunEndingAt(habit_data, today)
    /\ (Returned /\ impl = "main") => streak = c

\* C2's case: today absent, the three days before it succeeded, the streak 3
C2_Witness ==
    /\ pc = "stored"
    /\ impl = "main"
    /\ strftime(today) \notin DOMAIN habit_data
    /\ \A i \in 1 .. 3 : Marked(habit_data, today - i)
    /\ ~ Marked(habit_data, today - 4)
    /\ rec.value.current = 3

\* the log with today marked succeeded
MarkToday(log, tdy) == Overlay(log, [k \in {strftime(tdy)} |-> "succeeded"])

\* C3: in both implementations, today failed gives 0 whatever came before,
\* today succeeded gives 1 + the run ending at today - 1, and marking an
\* unmarked today as succeeded raises the streak by exactly 1
C3_TodayMarked ==
    LET t == strftime(today)
        main == compute_current_streak(habit_data, today)
        pages == pages_compute_current_streak(habit_data, today)
    IN  /\ Get(habit_data, t) = "failed" => (main = 0 /\ pages = 0)
        /\ Get(habit_data, t) = "succeeded" =>
              /\ main = 1 + RunEndingAt(habit_data, today - 1)
              /\ pages = 1 + RunEndingAt(habit_data, today - 1)
        /\ t \notin DOMAIN habit_data =>
              /\ compute_current_streak(MarkToday(habit_data, today), today) = main + 1
              /\ pages_compute_current_streak(MarkToday(habit_data, today), today)
                    = pages + 1
        /\ Returned => streak = (IF impl = "main" THEN main ELSE pages)

\* C3's case: today failed after two succeeded days, and the walk returned 0
C3_Witness ==
    /\ Returned
    /\ Get(habit_data, strftime(today)) = "failed"
    /\ Marked(habit_data, today - 1)
    /\ Marked(habit_data, today - 2)
    /\ streak = 0

\* C4: compute_longest_streak is 0 when no entry is dated <= today, and
\* otherwise the longest run of consecutive succeeded days inside
\* [earliest logged date, today]; failed and unmarked days end a run and a
\* run ending on today counts
C4_Longest ==
    ValidLog(habit_data) =>
        LET l == compute_longest_streak(habit_data, today)
            E == {n \in LoggedDays(habit_data) : n <= today}
        IN  /\ l.exc = ""
            /\ l.value = IF E = {} THEN 0 ELSE LongestRun(habit_data, MinOf(E), today)
            /\ pc = "stored" => rec.value.longest = l.value

\* C4's case: succeeded, succeeded, failed with today the failed day (current
\* 0, longest 2)
C4_Witness ==
    /\ pc = "stored"
    /\ impl = "main"
    /\ today = Day0 + 2
    /\ habit_data = [k \in {strftime(Day0), strftime(Day0 + 1), strftime(Day0 + 2)} |->
                        IF k = strftime(Day0 + 2) THEN "failed" ELSE "succeeded"]
    /\ rec.value.current = 0
    /\ rec.value.longest = 2

\* C5: adding, changing or removing entries dated after today changes neither
\* streak
C5_FutureIgnored ==
    (ValidLog(habit_data) /\ pc = "stored") =>
        \A fut \in FutureLogs(today) :
            LET other == Overlay(PastOf(habit_data, today), fut) IN
            /\ compute_current_streak(other, today) = rec.value.current
            /\ compute_longest_streak(other, today) = Return(rec.value.longest)

\* C5's case: today and tomorrow both succeeded, and tomorrow is not counted
C5_Witness ==
    /\ pc = "stored"
    /\ impl = "main"
    /\ Marked(habit_data, today)
    /\ Marked(habit_data, today + 1)
    /\ ~ Marked(habit_data, today - 1)
    /\ rec.value.current = 1
    /\ rec.value.longest = 1

\* the log without its unparseable key
CleanOf(log) == [k \in DOMAIN log \ {BadKey} |-> log[k]]

\* C6 (as claimed): a key that is not a date is skipped, so
\* update_streaks_for_habit completes with the record of the log without it
C6_MalformedKeySkipped ==
    (pc \in {"stored", "raised"} /\ impl = "main") =>
        rec = data_to_store(CleanOf(habit_data), today)

\* the number of entries marked succeeded
SucceededCount(log) == Cardinality({k \in DOMAIN log : log[k] = "succeeded"})

\* the earlier of today and the earliest logged date
WalkFloor(log, tdy) ==
    IF LoggedDays(log) = {} THEN tdy ELSE MinOf(LoggedDays(log) \cup {tdy})

\* C7 (as claimed): at most (succeeded entries) + 1 iterations, and no day
\* earlier than one day before the earliest logged date is inspected
C7_WalkBoundOriginal ==
    /\ iters <= SucceededCount(habit_data) + 1
    /\ LoggedDays(habit_data) # {} =>
          \A n \in inspected : n >= MinOf(LoggedDays(habit_data)) - 1

\* C7 (amended): the walk ends; src/habittracker.py makes at most
\* (succeeded entries) + 1 iterations and src/pages/habittracker.py at most
\* (succeeded entries) + 2; no day earlier than one day before the earlier
\* of today and the earliest logged date is inspected
C7_WalkBound ==
    /\ [](/\ iters <= SucceededCount(habit_data) + (IF impl = "main" THEN 1 ELSE 2)
          /\ \A n \in inspected : n >= WalkFloor(habit_data, today) - 1
          /\ Returned => iters >= 1)
    /\ <>Returned

\* C7's case: the pages walk returned after (succeeded entries) + 2
\* iterations, having looked at the day before the earliest logged date
C7_Witness ==
    /\ impl = "pages"
    /\ Returned
    /\ SucceededCount(habit_data) >= 2
    /\ iters = SucceededCount(habit_data) + 2
    /\ (MinOf(LoggedDays(habit_data)) - 1) \in inspected

-----------------------------------------------------------------------------
(* Spec: the render passes of one logged-in session, src/habittracker.py   *)
(* lines 450-633. Streamlit runs the script top to bottom once per user    *)
(* interaction, and an interaction is at most one clicked button.          *)

\* dict operations
DictSet(f, k, v) == [x \in DOMAIN f \cup {k} |-> IF x = k THEN v ELSE f[x]]
DictPop(f, k) == [x \in DOMAIN f \ {k} |-> f[x]]

\* typed text is a sequence of characters
Whitespace == {" ", "\n"}

\* str.strip()
RECURSIVE lstrip(_)
lstrip(t) == IF t # <<>> /\ Head(t) \in Whitespace THEN lstrip(Tail(t)) ELSE t
RECURSIVE rstrip(_)
rstrip(t) ==
    IF t # <<>> /\ t[Len(t)] \in Whitespace THEN rstrip(SubSeq(t, 1, Len(t) - 1)) ELSE t
strip(t) == rstrip(lstrip(t))

\* what the user types into the "Habit" field of Add Habit
AddTexts == {<<>>, <<" ">>, <<"A">>, <<" ", "A", " ">>, <<"B">>}
\* what the user leaves or types in a habit's "Habit name" field
NameTexts == {<<"A">>, <<"B">>}

\* st.number_input without its min_value
number_input_NoMin(min_value, typed) == typed

\* st.number_input(min_value=..) when the user types a number: the widget
\* does not go below min_value
number_input(min_value, typed) == IF typed < min_value THEN min_value ELSE typed

\* st.number_input(min_value=1): the weekly goals the user can submit
GoalInputs == {number_input(1, typed) : typed \in 0 .. MaxGoal}
\* st.color_picker: the colors the user can submit
Colors == {"#000000"}

\* register_user's initial_data, which load_user_data returns at session start
InitialData ==
    [habits |-> <<>>, goals |-> <<>>, streaks |-> <<>>, journal |-> <<>>, todo |-> <<>>,
     habit_colors |-> <<>>]

\* update_streaks_for_habit (lines 301-308) on the session data; the logs
\* of a session hold strftime keys only, so compute_longest_streak returns
update_streaks_for_habit(dat, habit, log, tdy) ==
    LET d1 == IF "streaks" \notin DOMAIN dat THEN DictSet(dat, "streaks", <<>>) ELSE dat
    IN  [d1 EXCEPT !.streaks = DictSet(d1.streaks, habit, data_to_store(log, tdy).value)]

\* the loop "for habit in data['habits']: update_streaks_for_habit(...)"
\* (lines 466-467) over the habits in todo
RECURSIVE RecomputeLoop(_, _, _)
RecomputeLoop(dat, todo, tdy) ==
    IF todo = {} THEN dat
    ELSE LET habit == CHOOSE h \in todo : TRUE IN
         RecomputeLoop(update_streaks_for_habit(dat, habit, dat.habits[habit], tdy),
                       todo \ {habit}, tdy)

Recompute(dat, tdy) == RecomputeLoop(dat, DOMAIN dat.habits, tdy)

\* the Add Habit handler (lines 508-522) after the test of the name
add_habit(dat, new_habit, new_goal, new_color, tdy) ==
    LET d1 == [dat EXCEPT !.habits = DictSet(dat.habits, new_habit, <<>>),
                          !.goals = DictSet(dat.goals, new_habit, new_goal),
                          !.habit_colors = DictSet(dat.habit_colors, new_habit, new_color)]
    IN  update_streaks_for_habit(d1, new_habit, d1.habits[new_habit], tdy)

\* the rename branch that leaves the streak record under the old name
rename_habit_KeepsStreak(dat, habit, new_name_val) ==
    [dat EXCEPT !.habits = DictSet(DictPop(@, habit), new_name_val, dat.habits[habit]),
                !.goals = DictSet(DictPop(@, habit), new_name_val, dat.goals[habit]),
                !.habit_colors = DictSet(DictPop(@, habit), new_name_val,
                                         dat.habit_colors[habit])]

\* the rename branch of the Update handler (lines 555-562)
rename_habit(dat, habit, new_name_val) ==
    LET h1 == DictSet(DictPop(dat.habits, habit), new_name_val, dat.habits[habit])
        g1 == DictSet(DictPop(dat.goals, habit), new_name_val, dat.goals[habit])
        s1 == IF habit \in DOMAIN dat.streaks
              THEN DictSet(DictPop(dat.streaks, habit), new_name_val, dat.streaks[habit])
              ELSE dat.streaks
        c1 == IF habit \in DOMAIN dat.habit_colors
              THEN DictSet(DictPop(dat.habit_colors, habit), new_name_val,
                           dat.habit_colors[habit])
              ELSE dat.habit_colors
    IN  [dat EXCEPT !.habits = h1, !.goals = g1, !.streaks = s1, !.habit_colors = c1]

\* the Update handler (lines 554-568)
update_habit(dat, habit, new_name_val, new_goal_val, new_color_val) ==
    LET d1 == IF new_name_val # habit THEN rename_habit(dat, habit, new_name_val) ELSE dat
        h == IF new_name_val # habit THEN new_name_val ELSE habit
    IN  [d1 EXCEPT !.goals = DictSet(d1.goals, h, new_goal_val),
                   !.habit_colors = DictSet(d1.habit_colors, h, new_color_val)]

\* the Remove handler (lines 571-577)
remove_habit(dat, habit) ==
    [dat EXCEPT !.habits = DictPop(dat.habits, habit),
                !.goals = DictPop(dat.goals, habit),
                !.streaks = DictPop(dat.streaks, habit),
                !.habit_colors = DictPop(dat.habit_colors, habit)]

\* next_outcome that goes from succeeded back to unmarked
next_outcome_TwoState(current_outcome) ==
    IF current_outcome = "None" THEN "succeeded" ELSE "None"

\* the new outcome of a clicked cell (lines 611-616); "None" removes the entry
next_outcome(current_outcome) ==
    IF current_outcome = "None" THEN "succeeded"
    ELSE IF current_outcome = "succeeded" THEN "failed"
    ELSE "None"

\* the log after a click on the cell date_str (lines 611-620)
toggled_log(log, date_str) ==
    LET new == next_outcome(Get(log, date_str)) IN
    IF new = "None" THEN DictPop(log, date_str) ELSE DictSet(log, date_str, new)

\* toggle_outcome without the call of update_streaks_for_habit
toggle_outcome_NoRecompute(dat, habit, date_str, tdy) ==
    [dat EXCEPT !.habits[habit] = toggled_log(dat.habits[habit], date_str)]

\* the handler of a cell's button (lines 610-623)
toggle_outcome(dat, habit, date_str, tdy) ==
    LET d1 == [dat EXCEPT !.habits[habit] = toggled_log(dat.habits[habit], date_str)]
    IN  update_streaks_for_habit(d1, habit, d1.habits[habit], tdy)

\* week_dates of the tracker grid (lines 589-590)
week_dates(tdy) ==
    LET week_start == tdy - weekday(tdy) IN [i \in 0 .. 6 |-> week_start + i]

\* the number of entries of all logs
EntryCount(dat) ==
    Cardinality(UNION {{<<h, k>> : k \in DOMAIN dat.habits[h]} : h \in DOMAIN dat.habits})

Init ==
    /\ today = Day0
    /\ data = InitialData
    /\ store = InitialData
    /\ pass_today = 0
    /\ ClockIdle
    /\ StreakIdle
    /\ MultiIdle
    /\ AnalyticsIdle
    /\ CallIdle

\* the end of a pass that left the session data dat: every handler has
\* called save_user_data, as has the recompute loop
EndPass(dat) ==
    /\ data' = dat
    /\ store' = dat
    /\ pass_today' = today
    /\ UNCHANGED <<today, now_hour, uuids, streakVars, multiVars, anVars, callVars>>

\* a pass in which no button was clicked
Render == EndPass(Recompute(data, today))

\* a pass that handles a click on Add Habit
AddHabit ==
    LET dat == Recompute(data, today) IN
    \E text \in AddTexts, new_goal \in GoalInputs, new_color \in Colors :
        LET new_habit == strip(text) IN
        IF new_habit = <<>> \/ new_habit \in DOMAIN dat.habits
        THEN EndPass(dat)
        ELSE EndPass(add_habit(dat, new_habit, new_goal, new_color, today))

\* a pass that handles a click on a habit's Update
UpdateHabit ==
    LET dat == Recompute(data, today) IN
    \E habit \in DOMAIN data.habits, new_name_val \in NameTexts,
       new_goal_val \in GoalInputs, new_color_val \in Colors :
        EndPass(update_habit(dat, habit, new_name_val, new_goal_val, new_color_val))

\* a pass that handles a click on a habit's Remove
RemoveHabit ==
    LET dat == Recompute(data, today) IN
    \E habit \in DOMAIN data.habits : EndPass(remove_habit(dat, habit))

\* a pass that handles a click on a cell of the weekly grid
ToggleOutcome ==
    LET dat == Recompute(data, today) IN
    \E habit \in DOMAIN data.habits, i \in 0 .. MaxCell :
        LET date_str == strftime(week_dates(today)[i]) IN
        /\ (date_str \in DOMAIN data.habits[habit] \/ EntryCount(data) < MaxEntries)
        /\ EndPass(toggle_outcome(dat, habit, date_str, today))

\* midnight passes between two passes
Tick ==
    /\ today < Day0 + MaxAdvance
    /\ today' = today + 1
    /\ UNCHANGED <<streakVars, multiVars, appVars, anVars, callVars>>

Next == Render \/ AddHabit \/ UpdateHabit \/ RemoveHabit \/ ToggleOutcome \/ Tick

Spec == Init /\ [][Next]_vars

\* C8: at the end of every render pass every habit's cached StreakRecord is
\* the one recomputed from its log and that pass's today
C8_CacheFresh ==
    pass_today # 0 =>
        \A h \in DOMAIN data.habits :
            /\ h \in DOMAIN data.streaks
            /\ data.streaks[h] =
                  [current |-> compute_current_streak(data.habits[h], pass_today),
                   longest |-> compute_longest_streak(data.habits[h], pass_today).value,
                   last_update |-> strftime(pass_today)]

\* C8's case: a pass after midnight, two habits, one with a running streak
\* of two days recorded for the new today
C8_Witness ==
    /\ pass_today = today
    /\ today > Day0
    /\ Cardinality(DOMAIN data.habits) = 2
    /\ \E h \in DOMAIN data.habits :
          /\ data.streaks[h].current = 2
          /\ data.streaks[h].last_update = strftime(today)
          /\ strftime(today) \notin DOMAIN data.habits[h]

-----------------------------------------------------------------------------
(* The analytics tab, src/habittracker.py lines 638-709, 801-860, 952-1009 *)
(* A DataFrame is a sequence of rows.                                      *)

\* shift_month (lines 247-256): the two while loops bring month into 1 .. 12
RECURSIVE NormalizeMonth(_, _)
NormalizeMonth(y, m) ==
    IF m > 12 THEN NormalizeMonth(y + 1, m - 12)
    ELSE IF m < 1 THEN NormalizeMonth(y - 1, m + 12)
    ELSE date(y, m, 1)

shift_month(date_obj, delta) == NormalizeMonth(year(date_obj), month(date_obj) + delta)

\* records (lines 642-650): one (habit, date) per succeeded entry whose key
\* pd.to_datetime parses
success_records(dat) ==
    UNION {{<<h, strptime(k)>> :
               k \in {j \in DOMAIN dat.habits[h] :
                          dat.habits[h][j] = "succeeded" /\ ~ strptime_raises(j)}} :
           h \in DOMAIN dat.habits}

\* mask with an exclusive upper end
mask_ExclusiveEnd(df, lo, hi) == {r \in df : lo <= r[2] /\ r[2] < hi}

\* df[(df["date"].dt.date >= lo) & (df["date"].dt.date <= hi)]
mask(df, lo, hi) == {r \in df : lo <= r[2] /\ r[2] <= hi}

\* the habit names of the model in the order pandas sorts them
SortedNames == << <<"A">>, <<"B">> >>

\* the values of a table's habit column
HabitColumn(tbl) == {tbl[i].habit : i \in DOMAIN tbl}

\* df.groupby("habit").size().reset_index(name=...): a row per habit that has
\* a record, in sorted order
groupby_size(df) ==
    LET present == SelectSeq(SortedNames, LAMBDA h : \E r \in df : r[1] = h)
    IN  [i \in 1 .. Len(present) |->
            [habit |-> present[i],
             count |-> Cardinality({r \in df : r[1] = present[i]})]]

\* the loop that concatenates a zero row for each habit missing from the
\* summary (lines 689-693)
RECURSIVE fill_missing(_, _)
fill_missing(summary, habits) ==
    IF habits = <<>> THEN summary
    ELSE IF Head(habits) \notin HabitColumn(summary)
         THEN fill_missing(Append(summary, [habit |-> Head(habits), count |-> 0]),
                           Tail(habits))
         ELSE fill_missing(summary, Tail(habits))

\* the rows pd.merge(how="outer") makes of the left rows L and the right rows
\* R of one habit; a side without a row gives NaN, which fillna(0) makes 0
MergeRows(h, L, R) ==
    IF L = <<>>
    THEN [i \in 1 .. Len(R) |->
             [habit |-> h, current_success_count |-> 0, last_success_count |-> R[i].count]]
    ELSE IF R = <<>>
    THEN [i \in 1 .. Len(L) |->
             [habit |-> h, current_success_count |-> L[i].count, last_success_count |-> 0]]
    ELSE [i \in 1 .. (Len(L) * Len(R)) |->
             [habit |-> h,
              current_success_count |-> L[((i - 1) \div Len(R)) + 1].count,
              last_success_count |-> R[((i - 1) % Len(R)) + 1].count]]

\* pd.merge(current_summary, last_summary, on="habit", how="outer").fillna(0)
\* (line 695), from the i-th sorted name on
RECURSIVE MergeFrom(_, _, _)
MergeFrom(cur, last, i) ==
    IF i > Len(SortedNames) THEN <<>>
    ELSE LET h == SortedNames[i]
             L == SelectSeq(cur, LAMBDA r : r.habit = h)
             R == SelectSeq(last, LAMBDA r : r.habit = h)
         IN  MergeRows(h, L, R) \o MergeFrom(cur, last, i + 1)

merge_outer(cur, last) == MergeFrom(cur, last, 1)

\* data["habits"].keys(), as a sequence
HabitKeys(dat) == SelectSeq(SortedNames, LAMBDA h : h \in DOMAIN dat.habits)

\* summary_compare of one period (lines 676-697): the successes in
\* [cur_lo, cur_hi] against those in [last_lo, last_hi]
summary_compare(dat, cur_lo, cur_hi, last_lo, last_hi) ==
    LET df == success_records(dat)
        current_summary == fill_missing(groupby_size(mask(df, cur_lo, cur_hi)),
                                        HabitKeys(dat))
        last_summary == fill_missing(groupby_size(mask(df, last_lo, last_hi)),
                                     HabitKeys(dat))
    IN  merge_outer(current_summary, last_summary)

\* dict.get(h, 0) on the goals
GoalOf(dat, h) == IF h \in DOMAIN dat.goals THEN dat.goals[h] ELSE 0

\* floor(log2(x)) of an integer x >= 1
RECURSIVE Log2Floor(_)
Log2Floor(x) == IF x < 2 THEN 0 ELSE 1 + Log2Floor(x \div 2)

RECURSIVE Pow2(_)
Pow2(e) == IF e = 0 THEN 1 ELSE 2 * Pow2(e - 1)

\* the binary exponent of the double goal / 7, for goal >= 1
QuotientExponent(goal) ==
    IF goal >= 7 THEN Log2Floor(goal \div 7)
    ELSE IF goal = 1 THEN -3
    ELSE IF goal <= 3 THEN -2
    ELSE -1

\* int(goal / 7 * num_days) (lines 848, 997) in IEEE-754 double arithmetic.
\* goal / 7 is rounded to 53 bits: it is exact when 7 divides goal, and is
\* otherwise off by c / (7 * 2^k), where k = 52 - QuotientExponent(goal),
\* r = (goal * 2^k) % 7 and c = -r (r <= 3, rounded down) or 7 - r (rounded
\* up). The product with num_days is rounded to 53 bits again and int()
\* truncates. When goal * num_days / 7 is no integer it lies at least 1/7
\* from one, so the truncation is its floor; when it is the integer Q and the
\* quotient was rounded down, the product lies r * (num_days / 7) units of
\* 2^-k below Q and rounds to the double below Q, hence int() gives Q - 1,
\* exactly when that is more than half the spacing of the doubles below Q.
scaled_goal(goal, num_days) ==
    IF goal % 7 = 0 THEN (goal \div 7) * num_days
    ELSE IF num_days % 7 # 0 THEN (goal * num_days) \div 7
    ELSE LET Q == goal * (num_days \div 7)
             F == QuotientExponent(goal)
             k == 52 - F
             r == ((goal % 7) * Pow2(k % 3)) % 7
             spacing == Pow2(Log2Floor(Q) - F)
             half == IF Q = Pow2(Log2Floor(Q)) THEN spacing \div 4 ELSE spacing \div 2
         IN  IF r <= 3 /\ r * (num_days \div 7) > half THEN Q - 1 ELSE Q

\* the summary with its goal column (lines 698, 847-849, 996-998)
WithGoal(rows, dat, num_days) ==
    [i \in 1 .. Len(rows) |->
        [habit |-> rows[i].habit,
         current_success_count |-> rows[i].current_success_count,
         last_success_count |-> rows[i].last_success_count,
         goal |-> IF num_days = 7 THEN GoalOf(dat, rows[i].habit)
                  ELSE scaled_goal(GoalOf(dat, rows[i].habit), num_days)]]

\* the Weekly tab (lines 660-698) for the week starting at current_week_start
weekly_view(dat, current_week_start) ==
    LET current_week_end == current_week_start + 6
        last_week_start == current_week_start - 7
        last_week_end == current_week_start - 1
    IN  [start |-> current_week_start,
         rows |-> WithGoal(summary_compare(dat, current_week_start, current_week_end,
                                           last_week_start, last_week_end), dat, 7)]

\* the Monthly tab (lines 802-849)
monthly_view(dat, current_month_start) ==
    LET y == year(current_month_start)
        m == month(current_month_start)
        num_days == monthrange(y, m)
        current_month_end == date(y, m, num_days)
        prev_month_start == shift_month(current_month_start, -1)
        prev_year == year(prev_month_start)
        prev_month == month(prev_month_start)
        prev_month_end == date(prev_year, prev_month, monthrange(prev_year, prev_month))
    IN  [start |-> current_month_start,
         rows |-> WithGoal(summary_compare(dat, current_month_start, current_month_end,
                                           prev_month_start, prev_month_end), dat, num_days)]

\* the Yearly tab (lines 953-998)
yearly_view(dat, current_year_start) ==
    LET current_year == year(current_year_start)
        year_length == IF isleap(current_year) THEN 366 ELSE 365
        current_year_end == date(current_year, 12, 31)
        prev_year == current_year - 1
    IN  [start |-> current_year_start,
         rows |-> WithGoal(summary_compare(dat, current_year_start, current_year_end,
                                           date(prev_year, 1, 1), date(prev_year, 12, 31)),
                           dat, year_length)]

\* src/pages/habittracker.py lines 313-360: without any success record the
\* page shows a message and computes no aggregate
pages_weekly_view(dat, current_week_start) ==
    IF success_records(dat) = {}
    THEN [start |-> current_week_start, rows |-> <<>>]
    ELSE weekly_view(dat, current_week_start)

\* f"{x:+}": the number with its sign
SignedStr(x) == IF x >= 0 THEN "+" \o ToString(x) ELSE "-" \o ToString(0 - x)

\* delta_str without the test of the comparison count
delta_str_Always(current_success_count, last_success_count) ==
    SignedStr(current_success_count - last_success_count)

\* delta_str (lines 705, 856, 1005)
delta_str(current_success_count, last_success_count) ==
    IF last_success_count > 0
    THEN SignedStr(current_success_count - last_success_count)
    ELSE "N/A"

\* the st.metric calls of a table (lines 702-709, 853-860, 1002-1009)
Metrics(tbl) ==
    [i \in 1 .. Len(tbl.rows) |->
        [label |-> tbl.rows[i].habit,
         delta |-> delta_str(tbl.rows[i].current_success_count,
                             tbl.rows[i].last_success_count)]]

\* what one pass computes in the analytics tab
analytics(dat, week, mon, yr) ==
    LET w == weekly_view(dat, week)
        m == monthly_view(dat, mon)
        y == yearly_view(dat, yr)
        p == pages_weekly_view(dat, week)
    IN  [weekly |-> w, monthly |-> m, yearly |-> y, pages_weekly |-> p,
         metrics |-> [weekly |-> Metrics(w), monthly |-> Metrics(m),
                      yearly |-> Metrics(y), pages_weekly |-> Metrics(p)]]

-----------------------------------------------------------------------------
(* SpecAnalytics: the analytics tab over every small set of logs, with the *)
(* Previous / Next buttons                                                 *)

\* the dates of the entries: Sun 2024-12-29 (the week before), Tue 2024-12-31
\* and Wed 2025-01-01 (the same week, the next month and year)
AnDays == {Day0 - 1, Day0 + 1, Day0 + 2}
AnKeys == {strftime(n) : n \in AnDays}

\* the logs of at most n entries
AnLogs(n) ==
    UNION {[K -> Outcomes] : K \in {J \in SUBSET AnKeys : Cardinality(J) <= n}}

\* the weekly goal every habit of a session is given
AnGoals == {1, 4}

\* the habit maps whose logs hold at most MaxEntries entries in total
AnHabits ==
    LET all == UNION {[H -> AnLogs(MaxEntries)] : H \in SUBSET {<<"A">>, <<"B">>}}
    IN  {hs \in all : EntryCount([habits |-> hs]) <= MaxEntries}

InitAnalytics ==
    /\ today = Day0 + 1
    /\ \E hs \in AnHabits, g \in AnGoals :
          data = [habits |-> hs,
                  goals |-> [h \in DOMAIN hs |-> g],
                  streaks |-> <<>>,
                  habit_colors |-> [h \in DOMAIN hs |-> "#000000"]]
    /\ store = data
    /\ pass_today = 0
    /\ ClockIdle
    \* lines 453-460
    /\ tracker_month = date(year(today), month(today), 1)
    /\ tracker_week = today - weekday(today)
    /\ tracker_year = date(year(today), 1, 1)
    /\ clicks = 0
    /\ view = NoView
    /\ StreakIdle
    /\ MultiIdle
    /\ CallIdle

\* a pass of the analytics tab in which the button click (or none) leaves
\* the trackers at week, mon, yr: the tables are computed from the values
\* read before the buttons (lines 660, 802, 953)
AnalyticsPass(week, mon, yr) ==
    /\ view' = analytics(data, tracker_week, tracker_month, tracker_year)
    /\ tracker_week' = week
    /\ tracker_month' = mon
    /\ tracker_year' = yr
    /\ UNCHANGED <<today, streakVars, multiVars, appVars, callVars>>

Click ==
    /\ clicks < MaxNav
    /\ clicks' = clicks + 1

ShowAnalytics ==
    /\ AnalyticsPass(tracker_week, tracker_month, tracker_year)
    /\ UNCHANGED clicks

PrevWeek == Click /\ AnalyticsPass(tracker_week - 7, tracker_month, tracker_year)
NextWeek == Click /\ AnalyticsPass(tracker_week + 7, tracker_month, tracker_year)
PrevMonth ==
    Click /\ AnalyticsPass(tracker_week, shift_month(tracker_month, -1), tracker_year)
NextMonth ==
    Click /\ AnalyticsPass(tracker_week, shift_month(tracker_month, 1), tracker_year)
PrevYear ==
    Click /\ AnalyticsPass(tracker_week, tracker_month, date(year(tracker_year) - 1, 1, 1))
NextYear ==
    Click /\ AnalyticsPass(tracker_week, tracker_month, date(year(tracker_year) + 1, 1, 1))

NextAnalytics ==
    \/ ShowAnalytics
    \/ PrevWeek \/ NextWeek
    \/ PrevMonth \/ NextMonth
    \/ PrevYear \/ NextYear

SpecAnalytics == InitAnalytics /\ [][NextAnalytics]_vars

-----------------------------------------------------------------------------
(* Period counts and completeness of the aggregates                        *)

YearOf == [n \in KeyDays |-> year(n)]
MonthOf == [n \in KeyDays |-> month(n)]

\* the number of days in the set P that the log marks succeeded
SucceededOn(log, P) ==
    Cardinality({n \in P \cap KeyDays : Get(log, strftime(n)) = "succeeded"})

\* the logged days of the week that starts at n, and of the week before
WeekDays(n) == n .. (n + 6)
WeekBefore(n) == (n - 7) .. (n - 1)

\* the logged days of the calendar month of n, and of the month before
MonthDays(n) ==
    LET y == year(n)
        m == month(n)
    IN  {k \in KeyDays : YearOf[k] = y /\ MonthOf[k] = m}
MonthBefore(n) ==
    LET y == year(n)
        m == month(n)
    IN  {k \in KeyDays :
            IF m = 1
            THEN YearOf[k] = y - 1 /\ MonthOf[k] = 12
            ELSE YearOf[k] = y /\ MonthOf[k] = m - 1}

\* the logged days of the calendar year of n, and of the year before
YearDays(n) == LET y == year(n) IN {k \in KeyDays : YearOf[k] = y}
YearBefore(n) == LET y == year(n) IN {k \in KeyDays : YearOf[k] = y - 1}

\* the rows of a table about habit h
RowsOf(tbl, h) == {i \in DOMAIN tbl.rows : tbl.rows[i].habit = h}

\* every row of the table about a habit counts the succeeded days of P and
\* of Q, and counts no entry twice
CountsAre(tbl, P, Q) ==
    LET current_days == P \cap KeyDays
        last_days == Q \cap KeyDays
    IN  \A h \in DOMAIN data.habits :
            \A i \in RowsOf(tbl, h) :
                /\ tbl.rows[i].current_success_count
                      = SucceededOn(data.habits[h], current_days)
                /\ tbl.rows[i].last_success_count
                      = SucceededOn(data.habits[h], last_days)
                /\ tbl.rows[i].current_success_count + tbl.rows[i].last_success_count
                      <= SucceededCount(data.habits[h])

\* C9: in the weekly, monthly and yearly table, a habit's current count is
\* the number of its entries marked succeeded dated in the displayed period,
\* its comparison count the number in the week, calendar month or calendar
\* year just before; failed and unmarked days are not counted and no entry
\* is counted in both periods.
C9_PeriodCounts ==
    view # NoView =>
        /\ CountsAre(view.weekly, WeekDays(view.weekly.start),
                      WeekBefore(view.weekly.start))
        /\ CountsAre(view.monthly, MonthDays(view.monthly.start),
                      MonthBefore(view.monthly.start))
        /\ CountsAre(view.yearly, YearDays(view.yearly.start),
                      YearBefore(view.yearly.start))

\* C9 witness: after Next Month the tables of January 2025 are shown for a
\* habit that succeeded on 2024-12-31 and failed on 2025-01-01: the month
\* counts 0 and 1 before, the week of 2024-12-30 counts 1
C9_Witness ==
    /\ view # NoView
    /\ view.monthly.start = date(2025, 1, 1)
    /\ \E h \in DOMAIN data.habits :
          /\ Get(data.habits[h], "2024-12-31") = "succeeded"
          /\ Get(data.habits[h], "2025-01-01") = "failed"
          /\ \E i \in RowsOf(view.monthly, h) :
                /\ view.monthly.rows[i].current_success_count = 0
                /\ view.monthly.rows[i].last_success_count = 1
          /\ \E i \in RowsOf(view.weekly, h) :
                /\ view.weekly.rows[i].current_success_count = 1
                /\ view.weekly.rows[i].last_success_count = 0

\* the table has exactly one row for every habit and none for another name
OneRecordPerHabit(tbl) ==
    /\ HabitColumn(tbl.rows) = DOMAIN data.habits
    /\ Len(tbl.rows) = Cardinality(DOMAIN data.habits)

\* C10: every aggregate, of the main program and of the page, holds exactly
\* one record for every habit of the user and none for any other name, also
\* when no habit has a succeeded entry.
C10_OneRecordPerHabit ==
    view # NoView =>
        /\ OneRecordPerHabit(view.weekly)
        /\ OneRecordPerHabit(view.monthly)
        /\ OneRecordPerHabit(view.yearly)
        /\ OneRecordPerHabit(view.pages_weekly)

\* C10, the tables of src/habittracker.py alone
C10_MainOneRecordPerHabit ==
    view # NoView =>
        /\ OneRecordPerHabit(view.weekly)
        /\ OneRecordPerHabit(view.monthly)
        /\ OneRecordPerHabit(view.yearly)

-----------------------------------------------------------------------------
(* The delta of the metrics                                                *)

\* the i-th metric of the table tbl, shown as ms, is about the i-th row,
\* shows "N/A" exactly when the comparison count is 0, and the signed
\* difference otherwise
DeltaOf(tbl, ms) ==
    /\ Len(ms) = Len(tbl.rows)
    /\ \A i \in DOMAIN ms :
          LET cur == tbl.rows[i].current_success_count
              last == tbl.rows[i].last_success_count
          IN  /\ ms[i].label = tbl.rows[i].habit
              /\ (ms[i].delta = "N/A") <=> (last = 0)
              /\ last = 0 => ms[i].delta # "+" \o ToString(cur)
              /\ last # 0 =>
                    ms[i].delta = (IF cur >= last THEN "+" \o ToString(cur - last)
                                   ELSE "-" \o ToString(last - cur))

\* C11: in the weekly, monthly and yearly metrics the delta is "N/A" exactly
\* when the comparison period's count is 0 and otherwise the current count
\* minus the comparison count with an explicit sign; with a comparison count
\* of 0 it is never the signed current count.
C11_DeltaSentinel ==
    view # NoView =>
        /\ DeltaOf(view.weekly, view.metrics.weekly)
        /\ DeltaOf(view.monthly, view.metrics.monthly)
        /\ DeltaOf(view.yearly, view.metrics.yearly)

\* C11 witness: one habit shows "N/A" for December 2024 with 2 successes in
\* the month and none in November, and "+0" for the week of 2024-12-30 with
\* one success in it and one in the week before
C11_Witness ==
    /\ view # NoView
    /\ \E i \in DOMAIN view.metrics.monthly, j \in DOMAIN view.metrics.weekly :
          /\ view.metrics.monthly[i].label = view.metrics.weekly[j].label
          /\ view.monthly.rows[i].current_success_count = 2
          /\ view.monthly.rows[i].last_success_count = 0
          /\ view.metrics.monthly[i].delta = "N/A"
          /\ view.weekly.rows[j].last_success_count = 1
          /\ view.metrics.weekly[j].delta = "+0"

-----------------------------------------------------------------------------
(* SpecGoal: the goal column for every weekly goal up to MaxWeeklyGoal and *)
(* every displayed month of 2024 and 2025                                  *)

\* the first days of the displayed months
MonthStarts == {date(y, m, 1) : y \in {2024, 2025}, m \in 1 .. 12}

\* the session data of a user with the one habit A and the weekly goal g
OneHabit(g) ==
    [habits |-> [h \in {<<"A">>} |-> <<>>],
     goals |-> [h \in {<<"A">>} |-> g],
     streaks |-> <<>>,
     habit_colors |-> [h \in {<<"A">>} |-> "#000000"]]

InitGoal ==
    /\ today = Day0
    /\ call \in [fn : {"goal"}, goal : 1 .. MaxWeeklyGoal, start : MonthStarts,
                  result : {Pending}]
    /\ StreakIdle
    /\ MultiIdle
    /\ AppIdle
    /\ AnalyticsIdle

\* the goal column of the three tables when the month call.start, its year
\* and the week of its first day are displayed
GoalColumn ==
    /\ call # NoCall
    /\ call.fn = "goal"
    /\ call.result = Pending
    /\ LET dat == OneHabit(call.goal)
           week == call.start - weekday(call.start)
       IN  call' = [call EXCEPT !.result =
                      [weekly |-> weekly_view(dat, week).rows[1].goal,
                       monthly |-> monthly_view(dat, call.start).rows[1].goal,
                       yearly |-> yearly_view(dat, date(year(call.start), 1, 1)).rows[1].goal]]
    /\ UNCHANGED <<today, streakVars, multiVars, appVars, anVars>>

NextGoal == GoalColumn

SpecGoal == InitGoal /\ [][NextGoal]_vars

\* C12: the goal is the weekly goal g for Weekly, floor(g * days / 7) for
\* Monthly and Yearly with the days of the displayed month or year; so the
\* goal of a 31-day month is at least that of a 28-day month, and a goal
\* g >= 1 gives a derived goal >= 1.
C12_GoalForPeriod ==
    (call # NoCall /\ call.fn = "goal" /\ call.result # Pending) =>
        LET g == call.goal
            y == year(call.start)
            days_in_month == monthrange(y, month(call.start))
            days_in_year == IF isleap(y) THEN 366 ELSE 365
        IN  /\ call.result.weekly = g
            /\ call.result.monthly = (g * days_in_month) \div 7
            /\ call.result.yearly = (g * days_in_year) \div 7
            /\ scaled_goal(g, 31) >= scaled_goal(g, 28)
            /\ call.result.monthly >= 1 /\ call.result.yearly >= 1

\* C12, what does hold: the derived goals are at most one below the floor,
\* the 31-day goal is at least the 28-day goal and the derived goal is >= 1
C12_GoalWithinOne ==
    (call # NoCall /\ call.fn = "goal" /\ call.result # Pending) =>
        LET g == call.goal
            y == year(call.start)
            days_in_month == monthrange(y, month(call.start))
            days_in_year == IF isleap(y) THEN 366 ELSE 365
        IN  /\ call.result.weekly = g
            /\ call.result.monthly \in {(g * days_in_month) \div 7,
                                         ((g * days_in_month) \div 7) - 1}
            /\ call.result.yearly = (g * days_in_year) \div 7
            /\ scaled_goal(g, 31) >= scaled_goal(g, 28)
            /\ call.result.monthly >= 1 /\ call.result.yearly >= 1

-----------------------------------------------------------------------------
(* The to-do list, src/habittracker.py lines 377-406 and 1173-1285         *)

\* a datetime is a date and an hour of that day
Hours == {9, 21}
DateTimes == [date : KeyDays, hour : Hours]

\* datetime.isoformat()
isoformat(dt) == strftime(dt.date) \o "T" \o Pad2(dt.hour) \o ":00:00"

IsoTable == [s \in {isoformat(dt) : dt \in DateTimes} |->
                CHOOSE dt \in DateTimes : isoformat(dt) = s]

\* datetime.datetime.fromisoformat(s)
fromisoformat(s) == IsoTable[s]

\* task.get("completed") and task.get("completed_at")
IsCompleted(task) == task.completed /\ task.completed_at # "None"

\* the test of the loop that takes every task created in the range
RangeTest_CreatedAlways(task, start, end) ==
    LET created_date == fromisoformat(task.timestamp).date
        completed_date == IF IsCompleted(task)
                          THEN fromisoformat(task.completed_at).date
                          ELSE 0
    IN  \/ task.completed /\ completed_date # 0
           /\ start <= completed_date /\ completed_date <= end
        \/ start <= created_date /\ created_date <= end

\* the test of the Daily branch (lines 381-384)
DailyTest(task, tdy) ==
    IsCompleted(task) /\ fromisoformat(task.completed_at).date = tdy

\* the test of the loop of the Weekly and Monthly branch (lines 397-405)
RangeTest(task, start, end) ==
    LET created_date == fromisoformat(task.timestamp).date
        completed_date == IF IsCompleted(task)
                          THEN fromisoformat(task.completed_at).date
                          ELSE 0
    IN  \/ task.completed /\ completed_date # 0
           /\ start <= completed_date /\ completed_date <= end
        \/ ~ task.completed /\ start <= created_date /\ created_date <= end

\* filter_tasks_by_period (lines 377-406)
filter_tasks_by_period(tasks, period, tdy) ==
    IF period = "Daily"
    THEN SelectSeq(tasks, LAMBDA task : DailyTest(task, tdy))
    ELSE IF period = "Weekly"
    THEN LET start == tdy - weekday(tdy)
             end == start + 6
         IN  SelectSeq(tasks, LAMBDA task : RangeTest(task, start, end))
    ELSE IF period = "Monthly"
    THEN LET y == year(tdy)
             m == month(tdy)
             start == date(y, m, 1)
             end == date(y, m, monthrange(y, m))
         IN  SelectSeq(tasks, LAMBDA task : RangeTest(task, start, end))
    ELSE tasks

-----------------------------------------------------------------------------
(* SpecFilter: filter_tasks_by_period on every small task list             *)

Periods == {"Daily", "Weekly", "Monthly", "Yearly"}

\* the days on which tasks are created and completed and the reference
\* dates: Sun 2024-12-29, Tue 2024-12-31 and Wed 2025-01-01
TaskDays == {Day0 - 1, Day0 + 1, Day0 + 2}

\* a task with the given id, created in the morning of a day and either open
\* or completed in the evening of that day or a later one
TasksWithId(i) ==
    LET open == {[id |-> i, task |-> <<"t">>, completed |-> FALSE,
                  timestamp |-> isoformat([date |-> c, hour |-> 9]),
                  completed_at |-> "None"] : c \in TaskDays}
        done == {[id |-> i, task |-> <<"t">>, completed |-> TRUE,
                  timestamp |-> isoformat([date |-> p[1], hour |-> 9]),
                  completed_at |-> isoformat([date |-> p[2], hour |-> 21])] :
                 p \in {q \in TaskDays \X TaskDays : q[1] <= q[2]}}
    IN  open \cup done

\* the task lists of n tasks with the ids 1 .. n
TaskListsOf(n) ==
    {f \in [1 .. n -> UNION {TasksWithId(i) : i \in 1 .. n}] : \A i \in 1 .. n : f[i].id = i}

TaskLists == UNION {TaskListsOf(n) : n \in 0 .. MaxTasks}

InitFilter ==
    /\ today \in TaskDays
    /\ call \in [fn : {"filter"}, tasks : TaskLists, period : Periods, result : {Pending}]
    /\ StreakIdle
    /\ MultiIdle
    /\ AppIdle
    /\ AnalyticsIdle

\* one call filter_tasks_by_period(tasks, period, today)
Filter ==
    /\ call # NoCall
    /\ call.fn = "filter"
    /\ call.result = Pending
    /\ call' = [call EXCEPT !.result =
                   Return(filter_tasks_by_period(call.tasks, call.period, today))]
    /\ UNCHANGED <<today, streakVars, multiVars, appVars, anVars>>

NextFilter == Filter

SpecFilter == InitFilter /\ [][NextFilter]_vars

\* day n lies in the period of the given kind that contains the day ref
InPeriod(n, period, ref) ==
    IF period = "Daily" THEN n = ref
    ELSE IF period = "Weekly" THEN n - weekday(n) = ref - weekday(ref)
    ELSE IF period = "Monthly" THEN YearOf[n] = YearOf[ref] /\ MonthOf[n] = MonthOf[ref]
    ELSE YearOf[n] = YearOf[ref]

\* the rule: a completed task belongs to the period of its completion date,
\* an open task to the period of its creation date
BelongsTo(task, period, ref) ==
    IF task.completed
    THEN task.completed_at # "None" /\ InPeriod(IsoTable[task.completed_at].date, period, ref)
    ELSE InPeriod(IsoTable[task.timestamp].date, period, ref)

FilterReturned == call # NoCall /\ call.fn = "filter" /\ call.result # Pending

\* C13: for Daily, Weekly, Monthly and Yearly and every reference date,
\* filter_tasks_by_period returns exactly the tasks that are completed with
\* the completion date in the period containing the reference date, or open
\* with the creation date in it, in their original order.
C13_FilterRule ==
    FilterReturned =>
        /\ call.result.exc = ""
        /\ call.result.value =
              SelectSeq(call.tasks, LAMBDA task : BelongsTo(task, call.period, today))

\* C13, what the code does: the rule for Weekly and Monthly; for Daily only
\* the tasks completed on the reference date; for Yearly the whole list
C13_FilterAsCoded ==
    FilterReturned =>
        /\ call.result.exc = ""
        /\ call.period \in {"Weekly", "Monthly"} =>
              call.result.value =
                  SelectSeq(call.tasks, LAMBDA task : BelongsTo(task, call.period, today))
        /\ call.period = "Daily" =>
              call.result.value =
                  SelectSeq(call.tasks,
                            LAMBDA task : task.completed /\ BelongsTo(task, "Daily", today))
        /\ call.period = "Yearly" => call.result.value = call.tasks

-----------------------------------------------------------------------------
(* SpecTodo: the To-Do List tab of one session (lines 1173-1223)           *)

\* what the user types into "Enter a new task"
TaskTexts == {<<>>, <<" ">>, <<"t">>, <<" ", "t">>}

\* datetime.datetime.now()
Now == [date |-> today, hour |-> now_hour]

\* the Add Task handler after the test of the text (lines 1189-1198)
add_task(dat, new_task, id, now) ==
    LET d1 == IF "todo" \notin DOMAIN dat THEN DictSet(dat, "todo", <<>>) ELSE dat
        task_obj == [id |-> id,
                     task |-> strip(new_task),
                     completed |-> FALSE,
                     timestamp |-> isoformat(now),
                     completed_at |-> "None"]
    IN  [d1 EXCEPT !.todo = Append(@, task_obj)]

\* the checkbox handler that leaves completed_at as it is
toggle_task_KeepsStamp(dat, i, now) ==
    [dat EXCEPT !.todo[i].completed = ~ @]

\* the handler of the i-th task's checkbox (lines 1208-1215)
toggle_task(dat, i, now) ==
    LET new_completed == ~ dat.todo[i].completed IN
    [dat EXCEPT !.todo[i].completed = new_completed,
                !.todo[i].completed_at = IF new_completed THEN isoformat(now) ELSE "None"]

\* list.remove(x): without the first element equal to x
ListRemove(seq, x) ==
    LET j == CHOOSE k \in DOMAIN seq : seq[k] = x /\ \A l \in 1 .. (k - 1) : seq[l] # x
    IN  SubSeq(seq, 1, j - 1) \o SubSeq(seq, j + 1, Len(seq))

\* the handler of the i-th task's Delete button (lines 1217-1219)
delete_task(dat, i) == [dat EXCEPT !.todo = ListRemove(@, dat.todo[i])]

InitTodo ==
    /\ today = Day0 - 1
    /\ data = InitialData
    /\ store = InitialData
    /\ pass_today = 0
    /\ now_hour = 9
    /\ uuids = 0
    /\ StreakIdle
    /\ MultiIdle
    /\ AnalyticsIdle
    /\ CallIdle

\* the handler saved the session data dat
TodoSaved(dat) ==
    /\ data' = dat
    /\ store' = dat
    /\ UNCHANGED <<today, pass_today, now_hour, streakVars, multiVars, anVars, callVars>>

\* a pass that handles a click on Add Task
AddTask ==
    /\ uuids < MaxTasks
    /\ \E new_task \in TaskTexts :
          IF strip(new_task) = <<>>
          THEN UNCHANGED vars
          ELSE /\ uuids' = uuids + 1
               /\ TodoSaved(add_task(data, new_task, uuids + 1, Now))

\* a pass that handles a click on a task's checkbox
ToggleTask ==
    /\ \E i \in DOMAIN data.todo : TodoSaved(toggle_task(data, i, Now))
    /\ UNCHANGED uuids

\* a pass that handles a click on a task's Delete
DeleteTask ==
    /\ \E i \in DOMAIN data.todo : TodoSaved(delete_task(data, i))
    /\ UNCHANGED uuids

\* time passes: from the morning to the evening, or to the morning of the
\* next of the days TaskDays
TodoTick ==
    /\ \/ now_hour = 9 /\ now_hour' = 21 /\ today' = today
       \/ now_hour = 21 /\ now_hour' = 9
          /\ \E k \in TaskDays : k > today
          /\ today' = MinOf({n \in TaskDays : n > today})
    /\ UNCHANGED <<data, store, pass_today, uuids, streakVars, multiVars, anVars, callVars>>

NextTodo == AddTask \/ ToggleTask \/ DeleteTask \/ TodoTick

SpecTodo == InitTodo /\ [][NextTodo]_vars

\* the task with the given id is in the list
HasId(tasks, id) == \E j \in DOMAIN tasks : tasks[j].id = id

\* a task's creation date
CreatedOn(task) == IsoTable[task.timestamp].date

SameMonth(m, n) == YearOf[m] = YearOf[n] /\ MonthOf[m] = MonthOf[n]
SameWeek(m, n) == m - weekday(m) = n - weekday(n)

\* the ids of the tasks of a list
IdsOf(tasks) == {tasks[j].id : j \in DOMAIN tasks}

\* reference dates: the days of TaskDays, Sun 2024-12-22 (the week before,
\* the same month) and Mon 2025-01-06 (the week after)
RefDays == TaskDays \cup {Day0 - 8, Day0 + 7}

\* no task is in the Monthly results of two reference dates of different
\* months, nor in the Weekly results of two of different weeks
NeverDuplicated ==
    LET monthly == [r \in RefDays |-> IdsOf(filter_tasks_by_period(data.todo, "Monthly", r))]
        weekly == [r \in RefDays |-> IdsOf(filter_tasks_by_period(data.todo, "Weekly", r))]
    IN  \A r1 \in RefDays, r2 \in RefDays :
            /\ ~ SameMonth(r1, r2) => monthly[r1] \cap monthly[r2] = {}
            /\ ~ SameWeek(r1, r2) => weekly[r1] \cap weekly[r2] = {}

\* a step that completes a task created in an earlier month moves it from
\* the Monthly result of its creation month to that of the current month
CompletionMoves ==
    \A i \in DOMAIN data.todo :
        (/\ i \in DOMAIN data'.todo
         /\ data'.todo[i].id = data.todo[i].id
         /\ ~ data.todo[i].completed
         /\ data'.todo[i].completed
         /\ ~ SameMonth(CreatedOn(data.todo[i]), today')) =>
            LET id == data.todo[i].id
                M == CreatedOn(data.todo[i])
            IN  /\ HasId(filter_tasks_by_period(data.todo, "Monthly", M), id)
                /\ ~ HasId(filter_tasks_by_period(data'.todo, "Monthly", M), id)
                /\ HasId(filter_tasks_by_period(data'.todo, "Monthly", today'), id)

\* C14: completing a task moves its period membership and never duplicates
\* it: a task created in month M and completed in month M+1 is in the
\* Monthly result for M+1 and not in that for M, where it was before the
\* completion; for two different months or weeks a task is in at most one
\* of the two results.
C14_MembershipMoves == [][CompletionMoves]_vars /\ []NeverDuplicated

\* C14 witness: a task created on 2024-12-31 and completed on 2025-01-01 is
\* in the Monthly result of January and not in that of December
C14_Witness ==
    /\ today = Day0 + 2
    /\ \E j \in DOMAIN data.todo :
          /\ data.todo[j].timestamp = "2024-12-31T09:00:00"
          /\ data.todo[j].completed_at = "2025-01-01T09:00:00"
          /\ HasId(filter_tasks_by_period(data.todo, "Monthly", today), data.todo[j].id)
          /\ ~ HasId(filter_tasks_by_period(data.todo, "Monthly", Day0 + 1), data.todo[j].id)

\* completed = true exactly when completed_at is not null
StampedIffCompleted ==
    \A j \in DOMAIN data.todo :
        data.todo[j].completed <=> (data.todo[j].completed_at # "None")

\* the list without its i-th element
WithoutIndex(seq, i) == SubSeq(seq, 1, i - 1) \o SubSeq(seq, i + 1, Len(seq))

\* what a step may do to the task list: append a new open task, flip one
\* task and set or clear its completed_at, or remove one task
TaskLifecycle ==
    LET old == data.todo
        new == data'.todo
    IN  \/ new = old
        \/ /\ Len(new) = Len(old) + 1
           /\ SubSeq(new, 1, Len(old)) = old
           /\ new[Len(new)].completed = FALSE
           /\ new[Len(new)].completed_at = "None"
           /\ new[Len(new)].id \notin IdsOf(old)
        \/ /\ Len(new) = Len(old)
           /\ \E i \in DOMAIN old :
                 /\ \A j \in DOMAIN old \ {i} : new[j] = old[j]
                 /\ new[i] = IF old[i].completed
                             THEN [old[i] EXCEPT !.completed = FALSE,
                                                 !.completed_at = "None"]
                             ELSE [old[i] EXCEPT !.completed = TRUE,
                                                 !.completed_at = isoformat(Now)]
        \/ /\ Len(new) = Len(old) - 1
           /\ \E i \in DOMAIN old : new = WithoutIndex(old, i)

\* C15: after any sequence of add, toggle and delete, every task has
\* completed = true exactly when completed_at is not null; a new task is
\* open without completed_at, un-completing clears completed_at,
\* re-completing sets it to the new time, and delete removes exactly the
\* chosen task and leaves the others unchanged.
C15_TaskLifecycle == []StampedIffCompleted /\ [][TaskLifecycle]_vars

\* C15 witness: two tasks were added, the first was deleted and the second,
\* created on 2024-12-29, is completed with the time of the last completion
C15_Witness ==
    /\ uuids = 2
    /\ Len(data.todo) = 1
    /\ data.todo[1].id = 2
    /\ data.todo[1].timestamp = "2024-12-29T09:00:00"
    /\ data.todo[1].completed
    /\ data.todo[1].completed_at = "2025-01-01T21:00:00"

-----------------------------------------------------------------------------
(* The summarizer glue, src/habittracker.py lines 341-372 and 408-445, and *)
(* the journal entry form, lines 1085-1119. A text is a sequence of        *)
(* characters and of literal pieces of the source.                         *)

\* str.lower() on the period labels
lower(period) ==
    IF period = "Daily" THEN "daily"
    ELSE IF period = "Weekly" THEN "weekly"
    ELSE "monthly"

\* what openai.chat.completions.create and the expression
\* response.choices[0].message.content.strip() can do: give a text, fail on
\* a content of None, or raise an error of the client
ApiOutcomes ==
    {[kind |-> "content", content |-> <<"s", " ">>],
     [kind |-> "content", content |-> <<>>],
     [kind |-> "none"],
     [kind |-> "raise", e |-> <<"timeout">>]}

\* the try block (lines 360-372, 434-445): the summary, or the error string
\* of the except branch
TryCreate(api) ==
    IF api.kind = "content" THEN strip(api.content)
    ELSE IF api.kind = "none"
    THEN <<"Error generating summary: ", "'NoneType' object has no attribute 'strip'">>
    ELSE <<"Error generating summary: ">> \o api.e

\* get_summary_for_entries that calls the service whatever the text is
get_summary_for_entries_NoGuard(entries_text, period, api) ==
    [value |-> TryCreate(api), exc |-> "", invoked |-> 1]

\* get_summary_for_entries (lines 351-372); invoked counts the external calls
get_summary_for_entries(entries_text, period, api) ==
    IF strip(entries_text) = <<>>
    THEN [value |-> <<"No journal entries to summarize.">>, exc |-> "", invoked |-> 0]
    ELSE [value |-> TryCreate(api), exc |-> "", invoked |-> 1]

\* get_ai_tasks_summary (lines 425-445)
get_ai_tasks_summary(grouped_text, period, api) ==
    IF strip(grouped_text) = <<>>
    THEN [value |-> <<"No tasks completed this ", lower(period), ".">>,
          exc |-> "", invoked |-> 0]
    ELSE [value |-> TryCreate(api), exc |-> "", invoked |-> 1]

\* build_entries_text (lines 341-349) of the one entry of date_str
build_entries_text(date_str, entry) ==
    LET feeling == strip(entry.feeling)
        cause == strip(entry.cause)
    IN  IF feeling # <<>> \/ cause # <<>>
        THEN <<"On ", date_str, ":", "\n", "- Feeling: ">> \o feeling
                 \o <<"\n", "- Possible Cause: ">> \o cause \o <<"\n">>
        ELSE <<>>

\* the handler of Save Journal Entry (lines 1106-1119) and save_journal_entry
\* (lines 317-319)
journal_save(dat, feeling_input, cause_input, api, tdy, now) ==
    LET today_str == strftime(tdy)
        entry == [feeling |-> feeling_input, cause |-> cause_input,
                  timestamp |-> isoformat(now)]
        summarize == strip(feeling_input) # <<>> \/ strip(cause_input) # <<>>
        summary == get_summary_for_entries(build_entries_text(today_str, entry), "Daily", api)
        saved == IF summarize
                 THEN [feeling |-> feeling_input, cause |-> cause_input,
                       timestamp |-> isoformat(now), summary |-> summary.value]
                 ELSE entry
    IN  IF "journal" \notin DOMAIN dat
        THEN [exc |-> "KeyError", invoked |-> IF summarize THEN summary.invoked ELSE 0]
        ELSE [value |-> [dat EXCEPT !.journal = DictSet(@, today_str, saved)],
              exc |-> "",
              invoked |-> IF summarize THEN summary.invoked ELSE 0]

-----------------------------------------------------------------------------
(* SpecSummary: one call of the summarizer glue or one journal save, for   *)
(* every small text and every outcome of the external call                 *)

\* entries_text / grouped_text, and what is typed into the journal form
SummaryTexts == {<<>>, <<" ">>, <<"\n">>, <<" ", "\n">>, <<"x">>, <<" ", "x", "\n">>}
SummaryPeriods == {"Daily", "Weekly", "Monthly"}

InitSummary ==
    /\ today = Day0
    /\ data = InitialData
    /\ store = InitialData
    /\ pass_today = 0
    /\ ClockIdle
    /\ call \in [fn : {"get_summary_for_entries", "get_ai_tasks_summary", "journal_save"},
                  text : SummaryTexts, cause : SummaryTexts, period : SummaryPeriods,
                  api : ApiOutcomes, result : {Pending}]
    /\ StreakIdle
    /\ MultiIdle
    /\ AnalyticsIdle

SummaryPending(fn) ==
    /\ call # NoCall
    /\ call.fn = fn
    /\ call.result = Pending

SummarizeEntries ==
    /\ SummaryPending("get_summary_for_entries")
    /\ call' = [call EXCEPT !.result =
                   get_summary_for_entries(call.text, call.period, call.api)]
    /\ UNCHANGED <<today, streakVars, multiVars, appVars, anVars>>

SummarizeTasks ==
    /\ SummaryPending("get_ai_tasks_summary")
    /\ call' = [call EXCEPT !.result =
                   get_ai_tasks_summary(call.text, call.period, call.api)]
    /\ UNCHANGED <<today, streakVars, multiVars, appVars, anVars>>

\* a pass that handles Save Journal Entry
SaveJournal ==
    /\ SummaryPending("journal_save")
    /\ LET r == journal_save(data, call.text, call.cause, call.api, today, Now) IN
       /\ call' = [call EXCEPT !.result = r]
       /\ IF r.exc = ""
          THEN data' = r.value /\ store' = r.value
          ELSE UNCHANGED <<data, store>>
    /\ UNCHANGED <<today, pass_today, now_hour, uuids, streakVars, multiVars, anVars>>

NextSummary == SummarizeEntries \/ SummarizeTasks \/ SaveJournal

SpecSummary == InitSummary /\ [][NextSummary]_vars

\* the text is empty or consists of spaces and line ends
IsBlank(t) == \A i \in DOMAIN t : t[i] \in {" ", "\n"}

\* the external call fails
ApiFails(api) == api.kind \in {"none", "raise"}

\* C16: with an empty or whitespace text the summarizer glue returns its
\* sentinel without invoking the external call; when the external call
\* fails it returns an error string; no exception reaches the caller, and a
\* journal save always completes.
C16_SummarizerTolerant ==
    (call # NoCall /\ call.result # Pending) =>
        /\ call.result.exc = ""
        /\ call.fn = "get_summary_for_entries" =>
              /\ IsBlank(call.text) =>
                    /\ call.result.invoked = 0
                    /\ call.result.value = <<"No journal entries to summarize.">>
              /\ (~ IsBlank(call.text) /\ ApiFails(call.api)) =>
                    Head(call.result.value) = "Error generating summary: "
        /\ call.fn = "get_ai_tasks_summary" =>
              /\ IsBlank(call.text) =>
                    /\ call.result.invoked = 0
                    /\ Head(call.result.value) = "No tasks completed this "
              /\ (~ IsBlank(call.text) /\ ApiFails(call.api)) =>
                    Head(call.result.value) = "Error generating summary: "
        /\ call.fn = "journal_save" =>
              /\ strftime(today) \in DOMAIN data.journal
              /\ store = data
              /\ data.journal[strftime(today)].feeling = call.text
              /\ (IsBlank(call.text) /\ IsBlank(call.cause)) => call.result.invoked = 0
              /\ (~ (IsBlank(call.text) /\ IsBlank(call.cause)) /\ ApiFails(call.api)) =>
                    Head(data.journal[strftime(today)].summary)
                        = "Error generating summary: "

\* C16 witness: the journal entry "x" was saved although the external call
\* raised, with the error string as its summary
C16_Witness ==
    /\ call # NoCall
    /\ call.result # Pending
    /\ call.fn = "journal_save"
    /\ call.text = <<"x">>
    /\ call.api.kind = "raise"
    /\ call.result.invoked = 1
    /\ data.journal[strftime(today)].summary = <<"Error generating summary: ", "timeout">>

-----------------------------------------------------------------------------
(* Loading the blob and the first pass, src/habittracker.py lines 62-73,   *)
(* 223-245 and 450-467                                                     *)

\* the key of this deployment (DATA_ENCRYPTION_KEY) and another one
SessionKey == "key"
FernetKeys == {"key", "other key"}

\* encrypt_json (lines 62-65): a token that holds the blob under a key
encrypt_json(dat, key) == [plain |-> dat, key |-> key]

\* decrypt_json (lines 67-73): InvalidToken gives the empty dict
decrypt_json(token) == IF token.key = SessionKey THEN token.plain ELSE <<>>

\* ref.get() of a user without a stored blob
NoBlob == [none |-> TRUE]

\* load_user_data (lines 223-238): the session data and the store afterwards
load_user_data(stored) ==
    IF stored = NoBlob
    THEN [data |-> InitialData, store |-> encrypt_json(InitialData, SessionKey)]
    ELSE [data |-> decrypt_json(stored), store |-> stored]

\* the rest of a pass without a click once the streaks are recomputed: the
\* first subscript of a missing key raises KeyError (lines 535, 1094 via
\* 315, 1229)
render_rest(d1) ==
    IF DOMAIN d1.habits # {} /\ "goals" \notin DOMAIN d1
    THEN [exc |-> "KeyError", key |-> "goals", value |-> d1]
    ELSE IF "journal" \notin DOMAIN d1
    THEN [exc |-> "KeyError", key |-> "journal", value |-> d1]
    ELSE IF "todo" \notin DOMAIN d1
    THEN [exc |-> "KeyError", key |-> "todo", value |-> d1]
    ELSE [exc |-> "", value |-> d1]

\* a pass without a click over the session data dat: data["habits"] of
\* line 466 raises KeyError when the key is missing
render_pass(dat, tdy) ==
    IF "habits" \notin DOMAIN dat THEN [exc |-> "KeyError", key |-> "habits"]
    ELSE render_rest(Recompute(dat, tdy))

\* what the first pass leaves: the result of the pass, the session data,
\* and the store, which update_streaks_for_habit saves when there is a habit
pass_outcome(loaded, r) ==
    [result |-> r,
     data   |-> IF "value" \in DOMAIN r THEN r.value ELSE loaded.data,
     store  |-> IF "value" \in DOMAIN r /\ DOMAIN r.value.habits # {}
                THEN encrypt_json(r.value, SessionKey)
                ELSE loaded.store]

\* the start of a session: load_user_data, then the first pass
session_start(stored, tdy) ==
    pass_outcome(load_user_data(stored), render_pass(load_user_data(stored).data, tdy))

-----------------------------------------------------------------------------
(* SpecLoad: the first pass of a session over every stored blob            *)

BlobKeys == {"habits", "goals", "streaks", "journal", "todo", "habit_colors"}

\* the value of a key in a blob without habits, and in a blob with the one
\* habit A that succeeded on 2024-12-30
EmptyValue(k) == <<>>
OneHabitValue(k) ==
    IF k = "habits" THEN [h \in {<<"A">>} |-> [s \in {strftime(Day0)} |-> "succeeded"]]
    ELSE IF k = "goals" THEN [h \in {<<"A">>} |-> 1]
    ELSE IF k = "habit_colors" THEN [h \in {<<"A">>} |-> "#000000"]
    ELSE <<>>

\* the blobs that hold some of the keys
PartialBlobs ==
    UNION {{[k \in K |-> EmptyValue(k)], [k \in K |-> OneHabitValue(k)]} :
           K \in SUBSET BlobKeys}

\* what the database can hold for the user
StoredBlobs ==
    {NoBlob} \cup {encrypt_json(b, key) : b \in PartialBlobs, key \in FernetKeys}

InitLoad ==
    /\ today \in {Day0, Day0 + 1}
    /\ \E stored \in StoredBlobs :
          /\ call = [fn |-> "session", stored |-> stored, result |-> Pending]
          /\ store = stored
    /\ data = <<>>
    /\ pass_today = 0
    /\ ClockIdle
    /\ StreakIdle
    /\ MultiIdle
    /\ AnalyticsIdle

\* the session starts: load_user_data, then the first pass
FirstPass ==
    /\ call # NoCall
    /\ call.fn = "session"
    /\ call.result = Pending
    /\ \E o \in {session_start(store, today)} :
          /\ call' = [call EXCEPT !.result = o.result]
          /\ data' = o.data
          /\ store' = o.store
          /\ pass_today' = IF o.result.exc = "" THEN today ELSE pass_today
    /\ UNCHANGED <<today, now_hour, uuids, streakVars, multiVars, anVars>>

NextLoad == FirstPass

SpecLoad == InitLoad /\ [][NextLoad]_vars

\* the keys the stored blob holds; none after a decryption failure
LoadedKeys(stored) ==
    IF stored = NoBlob THEN BlobKeys
    ELSE IF stored.key # SessionKey THEN {}
    ELSE DOMAIN stored.plain

\* C17: when the loaded blob lacks any of habits, goals, streaks, journal or
\* todo (the empty blob after a decryption failure included), the pass
\* completes without an error and treats the missing structure as empty.
C17_MissingKeysTolerated ==
    (call # NoCall /\ call.fn = "session" /\ call.result # Pending) =>
        /\ call.result.exc = ""
        /\ \A k \in {"habits", "goals", "streaks", "journal", "todo"} \ LoadedKeys(call.stored) :
              k \in DOMAIN data => data[k] = <<>>

\* C17, what the code does: the pass completes exactly when the blob holds
\* habits, journal and todo, and goals if there is a habit; a missing
\* streaks or habit_colors is tolerated
C17_PassCompletesIff ==
    (call # NoCall /\ call.fn = "session" /\ call.result # Pending) =>
        LET keys == LoadedKeys(call.stored) IN
        (call.result.exc = "") <=>
            /\ {"habits", "journal", "todo"} \subseteq keys
            /\ "goals" \in keys \/ data.habits = <<>>

-----------------------------------------------------------------------------
(* The requests of the Manage Habits expander and of the to-do form with   *)
(* what they save, src/habittracker.py lines 508-529, 554-569, 1185-1200,  *)
(* and the migration of src/pages/habittracker.py lines 53-69              *)

\* the handler of Add Habit without the test for an existing habit
add_habit_request_NoDuplicateTest(dat, text, new_goal, new_color, tdy) ==
    LET new_habit == strip(text) IN
    IF new_habit = <<>>
    THEN [data |-> dat, saved |-> <<>>, message |-> "Please enter a valid habit."]
    ELSE LET d1 == add_habit(dat, new_habit, new_goal, new_color, tdy)
         IN  [data |-> d1, saved |-> <<d1, d1>>, message |-> "added successfully!"]

\* the handler of Add Habit (lines 508-522): the session data afterwards and
\* the blobs handed to save_user_data, in order
add_habit_request(dat, text, new_goal, new_color, tdy) ==
    LET new_habit == strip(text) IN
    IF new_habit = <<>>
    THEN [data |-> dat, saved |-> <<>>, message |-> "Please enter a valid habit."]
    ELSE IF new_habit \in DOMAIN dat.habits
    THEN [data |-> dat, saved |-> <<>>, message |-> "This habit already exists!"]
    ELSE LET d1 == add_habit(dat, new_habit, new_goal, new_color, tdy)
         IN  [data |-> d1, saved |-> <<d1, d1>>, message |-> "added successfully!"]

\* the handler of Add Task (lines 1185-1200)
add_task_request(dat, new_task, id, now) ==
    IF strip(new_task) = <<>>
    THEN [data |-> dat, saved |-> <<>>, message |-> "Please enter a valid task."]
    ELSE LET d1 == add_task(dat, new_task, id, now)
         IN  [data |-> d1, saved |-> <<d1>>, message |-> "Task added successfully!"]

\* the handler of Update (lines 554-569)
update_request(dat, habit, new_name_val, new_goal_val, new_color_val) ==
    LET d1 == update_habit(dat, habit, new_name_val, new_goal_val, new_color_val)
    IN  [data |-> d1, saved |-> <<d1>>, message |-> "Updated habit successfully!"]

\* the names of the migration of the page
OldName == <<"Sleeping before 12">>
NewName == <<"Sleep">>

\* load_user_data of src/pages/habittracker.py (lines 53-69) on the user's
\* node: the data returned and the node afterwards, whose children are set
\* one by one
pages_load_user_data(node) ==
    LET n1 == IF "habits" \notin DOMAIN node THEN DictSet(node, "habits", <<>>) ELSE node
        n2 == IF "goals" \notin DOMAIN n1 THEN DictSet(n1, "goals", <<>>) ELSE n1
        n3 == IF "streaks" \notin DOMAIN n2 THEN DictSet(n2, "streaks", <<>>) ELSE n2
        n4 == IF OldName \in DOMAIN n3.habits
              THEN [n3 EXCEPT !.habits =
                        DictSet(DictPop(n3.habits, OldName), NewName, n3.habits[OldName])]
              ELSE n3
    IN  [data |-> n4, store |-> n4]

-----------------------------------------------------------------------------
(* SpecRequest: one request on every small session data                    *)

\* the colors the user can submit
RequestColors == {"#000000", "#ff0000"}
\* the logs of a habit: empty, or succeeded on 2024-12-30
RequestLogs == {<<>>, [s \in {strftime(Day0)} |-> "succeeded"]}
\* the to-do lists: empty, or the one open task of the morning
RequestTodos ==
    {<<>>, <<[id |-> 1, task |-> <<"t">>, completed |-> FALSE,
              timestamp |-> isoformat([date |-> Day0, hour |-> 9]),
              completed_at |-> "None"]>>}

\* the session data at the start of a handler: the habits are some of names,
\* the recompute loop of the pass has run
RequestData(names) ==
    UNION {{Recompute([habits |-> hs, goals |-> gs, streaks |-> <<>>, journal |-> <<>>,
                       todo |-> td, habit_colors |-> cs], Day0) :
              hs \in [H -> RequestLogs], gs \in [H -> GoalInputs],
              cs \in [H -> RequestColors], td \in RequestTodos} :
           H \in SUBSET names}

\* what is typed into a habit's "Habit name" field: a name in use or not
RenameTexts == {<<"A">>, <<"B">>, <<"N">>}

\* the requests on the session data dat
RequestsOn(dat) ==
    [fn : {"add_habit"}, before : {dat}, text : AddTexts, goal : GoalInputs,
     color : RequestColors, result : {Pending}]
    \cup [fn : {"add_task"}, before : {dat}, text : TaskTexts, result : {Pending}]
    \cup [fn : {"update"}, before : {dat}, habit : DOMAIN dat.habits, name : RenameTexts,
          goal : GoalInputs, color : RequestColors, result : {Pending}]

\* the user's node as the page stores it, with a habit to migrate or not
PagesNodes ==
    {[habits |-> dat.habits, goals |-> dat.goals, streaks |-> dat.streaks] :
        dat \in RequestData({OldName, NewName})}

InitRequest ==
    /\ today = Day0
    /\ \/ \E dat \in RequestData({<<"A">>, <<"B">>}) :
             /\ data = dat
             /\ call \in RequestsOn(dat)
       \/ \E node \in PagesNodes :
             /\ data = node
             /\ call = [fn |-> "pages_load", before |-> node, result |-> Pending]
    /\ store = data
    /\ pass_today = Day0
    /\ now_hour = 9
    /\ uuids = IF "todo" \in DOMAIN data THEN Len(data.todo) ELSE 0
    /\ StreakIdle
    /\ MultiIdle
    /\ AnalyticsIdle

RequestPending(fn) ==
    /\ call # NoCall
    /\ call.fn = fn
    /\ call.result = Pending

\* the handler returned r: the session data, and the store after its saves
RequestDone(r) ==
    /\ call' = [call EXCEPT !.result = r]
    /\ data' = r.data
    /\ store' = IF r.saved = <<>> THEN store ELSE r.saved[Len(r.saved)]
    /\ UNCHANGED <<today, pass_today, now_hour, streakVars, multiVars, anVars>>

AddHabitRequest ==
    /\ RequestPending("add_habit")
    /\ RequestDone(add_habit_request(data, call.text, call.goal, call.color, today))
    /\ UNCHANGED uuids

AddTaskRequest ==
    /\ RequestPending("add_task")
    /\ LET r == add_task_request(data, call.text, uuids + 1, Now) IN
       /\ RequestDone(r)
       /\ uuids' = IF r.saved = <<>> THEN uuids ELSE uuids + 1

UpdateRequest ==
    /\ RequestPending("update")
    /\ RequestDone(update_request(data, call.habit, call.name, call.goal, call.color))
    /\ UNCHANGED uuids

\* the page starts a session on the stored node
PagesLoad ==
    /\ RequestPending("pages_load")
    /\ LET r == pages_load_user_data(store) IN
       /\ call' = [call EXCEPT !.result = r]
       /\ data' = r.data
       /\ store' = r.store
    /\ UNCHANGED <<today, pass_today, now_hour, uuids, streakVars, multiVars, anVars>>

NextRequest == AddHabitRequest \/ AddTaskRequest \/ UpdateRequest \/ PagesLoad

SpecRequest == InitRequest /\ [][NextRequest]_vars

RequestHandled(fn) == call # NoCall /\ call.fn = fn /\ call.result # Pending

\* the text is the name h with blanks before and after it
IsTrimOf(text, h) ==
    \E i \in 0 .. Len(text) :
        /\ i + Len(h) <= Len(text)
        /\ SubSeq(text, i + 1, i + Len(h)) = h
        /\ \A k \in (1 .. i) \cup ((i + Len(h) + 1) .. Len(text)) : text[k] \in {" ", "\n"}

\* the request changed neither the session data nor the store
Rejected ==
    /\ data = call.before
    /\ store = call.before
    /\ call.result.saved = <<>>

HabitUnchanged(a, b, h) ==
    /\ h \in DOMAIN b.habits /\ b.habits[h] = a.habits[h]
    /\ h \in DOMAIN b.goals /\ b.goals[h] = a.goals[h]
    /\ h \in DOMAIN b.streaks /\ b.streaks[h] = a.streaks[h]
    /\ h \in DOMAIN b.habit_colors /\ b.habit_colors[h] = a.habit_colors[h]

\* C19: an Update that changes a habit's name to the name of another
\* existing habit is rejected: no habit is lost, and the log, goal, streak
\* record and color of both habits are unchanged.
C19_RenameToExistingRejected ==
    (/\ RequestHandled("update")
     /\ call.name # call.habit
     /\ call.name \in DOMAIN call.before.habits) =>
        /\ DOMAIN data.habits = DOMAIN call.before.habits
        /\ HabitUnchanged(call.before, data, call.habit)
        /\ HabitUnchanged(call.before, data, call.name)
        /\ HabitUnchanged(call.before, store, call.habit)
        /\ HabitUnchanged(call.before, store, call.name)

\* C19, what the code does: the renamed habit replaces the other one, whose
\* log and streak record are gone from the session data and from the store
C19_RenameOverwrites ==
    (/\ RequestHandled("update")
     /\ call.name # call.habit
     /\ call.name \in DOMAIN call.before.habits) =>
        /\ DOMAIN data.habits = DOMAIN call.before.habits \ {call.habit}
        /\ data.habits[call.name] = call.before.habits[call.habit]
        /\ data.streaks[call.name] = call.before.streaks[call.habit]
        /\ store = data

\* blob b holds old's log and streak record under the name new and nothing
\* under old, in the maps it has
Migrated(a, b, old, new) ==
    /\ \A map \in DOMAIN b \cap {"habits", "goals", "streaks", "habit_colors"} :
          old \notin DOMAIN b[map] /\ new \in DOMAIN b[map]
    /\ b.habits[new] = a.habits[old]
    /\ b.streaks[new] = a.streaks[old]

\* the rename of the Update handler of src/habittracker.py to a fresh name
MainRenameMigrates ==
    (/\ RequestHandled("update")
     /\ call.name \notin DOMAIN call.before.habits) =>
        /\ Migrated(call.before, data, call.habit, call.name)
        /\ data.goals[call.name] = call.goal
        /\ data.habit_colors[call.name] = call.color
        /\ \A h \in DOMAIN call.before.habits \ {call.habit} :
              HabitUnchanged(call.before, data, h)
        /\ DOMAIN data.habits = (DOMAIN call.before.habits \ {call.habit}) \cup {call.name}
        /\ \A i \in DOMAIN call.result.saved : call.result.saved[i] = data
        /\ store = data

\* the rename of load_user_data of src/pages/habittracker.py
PagesRenameMigrates ==
    (/\ RequestHandled("pages_load")
     /\ OldName \in DOMAIN call.before.habits
     /\ NewName \notin DOMAIN call.before.habits) =>
        /\ Migrated(call.before, data, OldName, NewName)
        /\ data.goals[NewName] = call.before.goals[OldName]
        /\ Migrated(call.before, store, OldName, NewName)

\* C20: renaming habit A to a fresh name N migrates log, goal, streak
\* record and color together: N holds A's log and streak record and the
\* submitted goal and color, A is absent from all maps, the other habits
\* are unchanged, and the store never holds a blob in which only some of the
\* maps were migrated.
C20_RenameMigratesTogether == MainRenameMigrates /\ PagesRenameMigrates

\* C20, the Update handler of src/habittracker.py alone
C20_MainRenameMigratesTogether == MainRenameMigrates

-----------------------------------------------------------------------------
(* The writes of a render pass, src/habittracker.py lines 240-242 and the  *)
(* handlers that call save_user_data. A pass is followed through the pair  *)
(* of the session data and the sequence of ref.set calls made so far.      *)

\* ref.set(value) on the reference ref: a write to the database
RefSet(ref, value) == [ref |-> ref, value |-> value]

\* save_user_data (lines 240-242): one ref.set of the encrypted session
\* data on users/<user_id>/data
save_user_data(st) ==
    [st EXCEPT !.writes = Append(@, RefSet("data", encrypt_json(st.data, SessionKey)))]

\* update_streaks_for_habit that leaves the save to its caller
streaks_saved_NoSave(st, habit, tdy) ==
    [st EXCEPT !.data = update_streaks_for_habit(st.data, habit, st.data.habits[habit], tdy)]

\* update_streaks_for_habit with its save (lines 301-309)
streaks_saved(st, habit, tdy) ==
    save_user_data([st EXCEPT !.data =
        update_streaks_for_habit(st.data, habit, st.data.habits[habit], tdy)])

\* the recompute loop (lines 466-467) over the habits in todo
RECURSIVE recompute_saved(_, _, _)
recompute_saved(st, todo, tdy) ==
    IF todo = {} THEN st
    ELSE LET habit == CHOOSE h \in todo : TRUE IN
         recompute_saved(streaks_saved(st, habit, tdy), todo \ {habit}, tdy)

\* the handler of a cell's button (lines 610-623): save, then
\* update_streaks_for_habit
toggle_saved(st, habit, date_str, tdy) ==
    streaks_saved(
        save_user_data([st EXCEPT !.data.habits[habit] = toggled_log(@, date_str)]),
        habit, tdy)

\* the Add Habit handler (lines 508-522)
add_habit_saved(st, text, new_goal, new_color, tdy) ==
    LET new_habit == strip(text) IN
    IF new_habit = <<>> \/ new_habit \in DOMAIN st.data.habits
    THEN st
    ELSE save_user_data(streaks_saved(
             [st EXCEPT !.data.habits = DictSet(@, new_habit, <<>>),
                        !.data.goals = DictSet(@, new_habit, new_goal),
                        !.data.habit_colors = DictSet(@, new_habit, new_color)],
             new_habit, tdy))

\* the Update handler (lines 554-568)
update_saved(st, habit, new_name_val, new_goal_val, new_color_val) ==
    save_user_data([st EXCEPT !.data =
        update_habit(st.data, habit, new_name_val, new_goal_val, new_color_val)])

\* the Remove handler (lines 571-578)
remove_saved(st, habit) ==
    save_user_data([st EXCEPT !.data = remove_habit(st.data, habit)])

\* the Add Task handler (lines 1185-1199)
add_task_saved(st, new_task, id, now) ==
    IF strip(new_task) = <<>> THEN st
    ELSE save_user_data([st EXCEPT !.data = add_task(st.data, new_task, id, now)])

\* the checkbox handler (lines 1208-1215)
toggle_task_saved(st, i, now) ==
    save_user_data([st EXCEPT !.data = toggle_task(st.data, i, now)])

\* the Delete handler of a task (lines 1217-1219)
delete_task_saved(st, i) ==
    save_user_data([st EXCEPT !.data = delete_task(st.data, i)])

\* Save Journal Entry (lines 1106-1119) with save_journal_entry (317-319)
journal_saved(st, feeling_input, cause_input, api, tdy, now) ==
    save_user_data([st EXCEPT !.data =
        journal_save(st.data, feeling_input, cause_input, api, tdy, now).value])

\* the handler of the click
handle_click(st, click, tdy, now) ==
    IF click.kind = "toggle" THEN toggle_saved(st, click.habit, click.date_str, tdy)
    ELSE IF click.kind = "add_habit"
    THEN add_habit_saved(st, click.text, click.goal, click.color, tdy)
    ELSE IF click.kind = "update"
    THEN update_saved(st, click.habit, click.name, click.goal, click.color)
    ELSE IF click.kind = "remove" THEN remove_saved(st, click.habit)
    ELSE IF click.kind = "add_task" THEN add_task_saved(st, click.text, click.id, now)
    ELSE IF click.kind = "toggle_task" THEN toggle_task_saved(st, click.i, now)
    ELSE IF click.kind = "delete_task" THEN delete_task_saved(st, click.i)
    ELSE IF click.kind = "journal"
    THEN journal_saved(st, click.feeling, click.cause, click.api, tdy, now)
    ELSE st

\* a render pass of a logged-in session over the session data dat (lines
\* 450-1230): the recompute loop, then the handler of the click if any
render_saved(dat, click, tdy, now) ==
    handle_click(recompute_saved([data |-> dat, writes |-> <<>>], DOMAIN dat.habits, tdy),
                 click, tdy, now)

\* the node users/<user_id>/data after the writes ws
stored_after(node, ws) == IF ws = <<>> THEN node ELSE ws[Len(ws)].value

-----------------------------------------------------------------------------
(* SpecPersist: the render passes of one session with every write they     *)
(* make: toggle, add / update / remove habit, add / complete / delete      *)
(* task, save journal entry                                                *)

\* the cell of the weekly grid the user clicks: the Monday of the week
PersistCell == strftime(week_dates(today)[0])

\* what the user types into the journal form, and what the service does
PersistFeelings == {<<>>, <<"x">>}
PersistApi == {[kind |-> "content", content |-> <<"s", " ">>]}

\* the weekly goals the user submits
PersistGoals == {1, 2}

NoClick == [kind |-> "none"]

ToggleClicks ==
    {[kind |-> "toggle", habit |-> h, date_str |-> PersistCell] : h \in DOMAIN data.habits}
AddHabitClicks ==
    {[kind |-> "add_habit", text |-> t, goal |-> g, color |-> c] :
        t \in AddTexts, g \in PersistGoals, c \in Colors}
UpdateClicks ==
    {[kind |-> "update", habit |-> h, name |-> n, goal |-> g, color |-> c] :
        h \in DOMAIN data.habits, n \in NameTexts, g \in PersistGoals, c \in Colors}
RemoveClicks == {[kind |-> "remove", habit |-> h] : h \in DOMAIN data.habits}
AddTaskClicks ==
    {[kind |-> "add_task", text |-> t, id |-> uuids + 1] : t \in TaskTexts}
ToggleTaskClicks == {[kind |-> "toggle_task", i |-> i] : i \in DOMAIN data.todo}
DeleteTaskClicks == {[kind |-> "delete_task", i |-> i] : i \in DOMAIN data.todo}
JournalClicks ==
    {[kind |-> "journal", feeling |-> f, cause |-> <<>>, api |-> a] :
        f \in PersistFeelings, a \in PersistApi}

\* a blob saved on the day before Day0: habit A succeeded on that day
YesterdayData ==
    [InitialData EXCEPT
        !.habits = [h \in {<<"A">>} |-> [s \in {strftime(Day0 - 1)} |-> "succeeded"]],
        !.goals = [h \in {<<"A">>} |-> 1],
        !.streaks = [h \in {<<"A">>} |->
                        [current |-> 1, longest |-> 1, last_update |-> strftime(Day0 - 1)]],
        !.habit_colors = [h \in {<<"A">>} |-> "#000000"]]

\* the session starts on the blob register_user stored, or on one saved
\* the day before (lines 145-153, 450-452)
InitPersist ==
    /\ today = Day0
    /\ data \in {InitialData, YesterdayData}
    /\ store = encrypt_json(data, SessionKey)
    /\ pass_today = 0
    /\ ClockIdle
    /\ StreakIdle
    /\ MultiIdle
    /\ AnalyticsIdle
    /\ CallIdle

\* a render pass that handles the click: the session data it leaves, the
\* stored blob after its writes, and the record of the pass
Pass(click) ==
    /\ \E o \in {render_saved(data, click, today, Now)} :
          /\ data' = o.data
          /\ store' = stored_after(store, o.writes)
          /\ call' = [fn |-> "pass", kind |-> click.kind, writes |-> o.writes]
    /\ pass_today' = today
    /\ uuids' = IF click.kind = "add_task" /\ strip(click.text) # <<>>
                THEN uuids + 1 ELSE uuids
    /\ UNCHANGED <<today, now_hour, streakVars, multiVars, anVars>>

PassRender == Pass(NoClick)
PassToggle == \E click \in ToggleClicks : Pass(click)
PassAddHabit == \E click \in AddHabitClicks : Pass(click)
PassUpdate == \E click \in UpdateClicks : Pass(click)
PassRemove == \E click \in RemoveClicks : Pass(click)
\* a task is added to the empty list only
PassAddTask ==
    /\ uuids < MaxTasks
    /\ data.todo = <<>>
    /\ \E click \in AddTaskClicks : Pass(click)
PassToggleTask == \E click \in ToggleTaskClicks : Pass(click)
PassDeleteTask == \E click \in DeleteTaskClicks : Pass(click)
PassJournal == \E click \in JournalClicks : Pass(click)

NextPersist ==
    \/ PassRender \/ PassToggle \/ PassAddHabit \/ PassUpdate \/ PassRemove
    \/ PassAddTask \/ PassToggleTask \/ PassDeleteTask \/ PassJournal

SpecPersist == InitPersist /\ [][NextPersist]_vars

\* a pass has ended
PassEnded == call # NoCall /\ call.fn = "pass"

\* the write replaces the node users/<user_id>/data by a blob that holds
\* every key of the session data
WholeBlob(w) ==
    /\ w.ref = "data"
    /\ w.value.key = SessionKey
    /\ DOMAIN w.value.plain = DOMAIN data

\* C21: at the end of every render pass the stored blob is the session's
\* in-memory blob, and every write of the pass replaced the entire blob,
\* whatever the pass handled: a toggle, add / update / remove habit, add /
\* complete / delete task or a journal entry.
C21_WholeBlobPersisted ==
    PassEnded =>
        /\ store = encrypt_json(data, SessionKey)
        /\ \A i \in DOMAIN call.writes : WholeBlob(call.writes[i])
        /\ call.writes # <<>> => call.writes[Len(call.writes)].value = store

\* C21's case: a toggle was handled with two saves after the recompute
\* loop's, the first of them with the habit's streak record not yet
\* recomputed, and the store ends equal to the session data
C21_Witness ==
    /\ PassEnded
    /\ call.kind = "toggle"
    /\ Len(call.writes) >= 3
    /\ call.writes[Len(call.writes) - 1].value.plain.streaks # data.streaks
    /\ call.writes[Len(call.writes) - 1].value.plain.habits = data.habits
    /\ store = encrypt_json(data, SessionKey)
    /\ data.todo # <<>>
    /\ data.journal # <<>>

-----------------------------------------------------------------------------
(* The script from its first line, src/habittracker.py lines 83-93,        *)
(* 109-218 and 450-483, for a browser session ss = [state, cookies]: state *)
(* is st.session_state (a key it does not hold is absent from its DOMAIN)  *)
(* and cookies the two cookies of the browser.                             *)

NoCookies == [login_token |-> "", username |-> ""]

\* a browser session that has not run the script yet
NewSession(cookies) == [state |-> <<>>, cookies |-> cookies]

\* lines 88-93: logged_in is initialised, and a login cookie logs the
\* session in under the cookie's username
cookie_login(ss) ==
    LET s1 == IF "logged_in" \notin DOMAIN ss.state
              THEN DictSet(ss.state, "logged_in", FALSE) ELSE ss.state
    IN  IF ss.cookies.login_token # "" /\ ~ s1.logged_in
        THEN [ss EXCEPT !.state = DictSet(DictSet(s1, "logged_in", TRUE),
                                          "username", ss.cookies.username)]
        ELSE [ss EXCEPT !.state = s1]

\* the login screen (lines 109-218): a successful Login sets logged_in, the
\* username and the cookies; then st.stop()
login_screen(ss, click) ==
    IF click.kind = "login" /\ click.username # "" /\ click.success
    THEN [state |-> DictSet(DictSet(ss.state, "logged_in", TRUE),
                            "username", click.username),
          cookies |-> [login_token |-> "token", username |-> click.username]]
    ELSE ss

\* the Logout handler (lines 475-483): the data and the username stay in
\* st.session_state
logout(ss) ==
    [state |-> DictSet(ss.state, "logged_in", FALSE), cookies |-> NoCookies]

\* lines 450-452: user_id, and the data loaded when the session has none
session_data(ss, database) ==
    IF "data" \notin DOMAIN ss.state
    THEN load_user_data(database[ss.state.username])
    ELSE [data |-> ss.state.data, store |-> database[ss.state.username]]

\* the part of the script after the login screen (lines 450-1230): what it
\* leaves in the session, and its writes on users/<user_id>/data
data_section_end(s1, click, st) ==
    [ss |-> IF click.kind = "logout" THEN logout(s1) ELSE s1,
     user_id |-> s1.state.username,
     reached |-> TRUE,
     writes |-> st.writes]

data_section_handled(ss, click, st) ==
    data_section_end([ss EXCEPT !.state = DictSet(@, "data", st.data)], click, st)

\* lines 469-1230: the Logout button, or the handler of the click in the tabs
data_section_tabs(ss, click, tdy, now, looped) ==
    IF click.kind = "logout"
    THEN data_section_end([ss EXCEPT !.state = DictSet(@, "data", looped.data)],
                          click, looped)
    ELSE data_section_handled(ss, click, handle_click(looped, click, tdy, now))

\* lines 462-467: the recompute loop over the loaded data; a load that
\* built the initial structure has written it (lines 232-234)
data_section_loaded(ss, database, click, tdy, now, loaded) ==
    data_section_tabs(ss, click, tdy, now,
        recompute_saved([data |-> loaded.data,
                         writes |-> IF loaded.store = database[ss.state.username]
                                    THEN <<>> ELSE <<RefSet("data", loaded.store)>>],
                        DOMAIN loaded.data.habits, tdy))

data_section(ss, database, click, tdy, now) ==
    data_section_loaded(ss, database, click, tdy, now, session_data(ss, database))

\* the script after lines 88-93 have run
run_script_from(s1, database, click, tdy, now) ==
    IF ~ s1.state.logged_in
    THEN [ss |-> login_screen(s1, click), user_id |-> "", reached |-> FALSE,
          writes |-> <<>>]
    ELSE data_section(s1, database, click, tdy, now)

\* one run of the script
run_script(ss, database, click, tdy, now) ==
    run_script_from(cookie_login(ss), database, click, tdy, now)

\* database_after that keeps the stored habits the written blob lacks
database_after_KeepsOthers(database, user_id, ws) ==
    IF ws = <<>> THEN database
    ELSE LET old == database[user_id].plain.habits
             new == stored_after(database[user_id], ws)
         IN  [database EXCEPT ![user_id] =
                 [new EXCEPT !.plain.habits =
                     [h \in DOMAIN old \cup DOMAIN @ |->
                         IF h \in DOMAIN @ THEN @[h] ELSE old[h]]]]

\* the database after the writes ws of a pass under user_id
database_after(database, user_id, ws) ==
    IF ws = <<>> THEN database
    ELSE [database EXCEPT ![user_id] = stored_after(@, ws)]

-----------------------------------------------------------------------------
(* SpecShared: two browser sessions of the same user, each with the login  *)
(* cookie, each loading the blob in its first pass                         *)

SharedUser == "u1"
SharedSessions == {"tab 1", "tab 2"}
SharedTexts == {<<"A">>, <<"B">>}

\* the clicks the data section of a session that holds dat offers
ToggleClicksOn(dat) ==
    {[kind |-> "toggle", habit |-> h, date_str |-> PersistCell] : h \in DOMAIN dat.habits}
AddHabitClicksOn(texts) ==
    {[kind |-> "add_habit", text |-> t, goal |-> 1, color |-> c] :
        t \in texts, c \in Colors}

InitShared ==
    /\ today = Day0
    /\ db = [u \in {SharedUser} |-> encrypt_json(InitialData, SessionKey)]
    /\ sessions = [s \in SharedSessions |->
                      NewSession([login_token |-> "token", username |-> SharedUser])]
    /\ AppIdle
    /\ StreakIdle
    /\ AnalyticsIdle
    /\ CallIdle

\* the data section was rendered in the session's last pass
DataShown(s) ==
    /\ "data" \in DOMAIN sessions[s].state
    /\ sessions[s].state.logged_in

\* a run of the script in the browser session s
ScriptPass(s, click) ==
    /\ \E o \in {run_script(sessions[s], db, click, today, Now)} :
          /\ sessions' = [sessions EXCEPT ![s] = o.ss]
          /\ db' = database_after(db, o.user_id, o.writes)
          /\ call' = [fn |-> "pass", session |-> s, kind |-> click.kind,
                      user_id |-> o.user_id, reached |-> o.reached,
                      writes |-> o.writes]
    /\ UNCHANGED <<today, streakVars, appVars, anVars>>

SharedRender == \E s \in SharedSessions : ScriptPass(s, NoClick)

SharedAddHabit ==
    \E s \in SharedSessions :
        /\ DataShown(s)
        /\ \E click \in AddHabitClicksOn(SharedTexts) : ScriptPass(s, click)

SharedToggle ==
    \E s \in SharedSessions :
        /\ DataShown(s)
        /\ \E click \in ToggleClicksOn(sessions[s].state.data) : ScriptPass(s, click)

NextShared == SharedRender \/ SharedAddHabit \/ SharedToggle

SpecShared == InitShared /\ [][NextShared]_vars

\* C22: the save of a session is accepted whatever the store holds and
\* replaces the whole stored blob: after a pass that wrote, the stored blob
\* is exactly the blob of the session that ran the pass, with nothing of
\* what another session stored in between.
C22_LastWriterWins ==
    (PassEnded /\ call.writes # <<>>) =>
        db[call.user_id] = encrypt_json(sessions[call.session].state.data, SessionKey)

\* C22's case, a lost update: tab 1 added habit A and toggled it to
\* succeeded after tab 2 had loaded the blob, then tab 2 added habit B; the
\* store holds B only
C22_Witness ==
    /\ PassEnded
    /\ call.session = "tab 2"
    /\ call.kind = "add_habit"
    /\ DataShown("tab 1")
    /\ DOMAIN sessions["tab 1"].state.data.habits = {<<"A">>}
    /\ sessions["tab 1"].state.data.habits[<<"A">>] # <<>>
    /\ DOMAIN sessions["tab 2"].state.data.habits = {<<"B">>}
    /\ DOMAIN db[SharedUser].plain.habits = {<<"B">>}

-----------------------------------------------------------------------------
(* shift_month executed one loop iteration at a time, src/habittracker.py  *)
(* lines 247-256 (src/pages/habittracker.py lines 78-87 is the same text). *)
(* A date is the record of its year, month and day here, so that the years *)
(* at both ends of datetime.date's range can be reached.                   *)

\* datetime.MINYEAR and datetime.MAXYEAR
MINYEAR == 1
MAXYEAR == 9999

\* datetime.date(y, m, dd): ValueError outside the range of the type
datetime_date(y, m, dd) ==
    IF y \in MINYEAR .. MAXYEAR /\ m \in 1 .. 12 /\ dd \in 1 .. monthrange(y, m)
    THEN Return([year |-> y, month |-> m, day |-> dd])
    ELSE Raise("ValueError")

\* the body of the first while loop (lines 251-252)
month_up(y, m) == [year |-> y + 1, month |-> m - 12]

\* the body of the second loop without its "year -= 1"
month_down_KeepsYear(y, m) == [year |-> y, month |-> m + 12]

\* the body of the second while loop (lines 254-255)
month_down(y, m) == [year |-> y - 1, month |-> m + 12]

\* the two while loops (lines 250-255) from year = y, month = m
RECURSIVE MonthLoops(_, _)
MonthLoops(y, m) ==
    IF m > 12 THEN MonthLoops(month_up(y, m).year, month_up(y, m).month)
    ELSE IF m < 1 THEN MonthLoops(month_down(y, m).year, month_down(y, m).month)
    ELSE [year |-> y, month |-> m]

\* shift_month on a date record: the loops, then datetime.date(year, month, 1)
shift_month_of(date_obj, delta) ==
    datetime_date(MonthLoops(date_obj.year, date_obj.month + delta).year,
                  MonthLoops(date_obj.year, date_obj.month + delta).month, 1)

-----------------------------------------------------------------------------
(* SpecShift: one call of shift_month for dates at both ends of the range  *)
(* and in between, and every delta up to MaxDelta months either way        *)

ShiftYears == {MINYEAR, MINYEAR + 1, 2024, MAXYEAR - 1, MAXYEAR}
ShiftDates == {[year |-> y, month |-> m, day |-> dd] :
                  y \in ShiftYears, m \in 1 .. 12, dd \in {1, 28}}
ShiftDeltas == (0 - MaxDelta) .. MaxDelta

InitShift ==
    /\ today = Day0
    /\ \E date_obj \in ShiftDates, delta \in ShiftDeltas :
          call = [fn |-> "shift_month", date_obj |-> date_obj, delta |-> delta,
                  pc |-> "call", year |-> 0, month |-> 0, iters |-> 0,
                  result |-> Pending]
    /\ AppIdle
    /\ StreakIdle
    /\ MultiIdle
    /\ AnalyticsIdle

ShiftAt(pc_) ==
    /\ call # NoCall
    /\ call.fn = "shift_month"
    /\ call.pc = pc_

ShiftStep(c) ==
    /\ call' = c
    /\ UNCHANGED <<today, streakVars, multiVars, appVars, anVars>>

\* lines 248-249
ShiftEnter ==
    /\ ShiftAt("call")
    /\ ShiftStep([call EXCEPT !.pc = "first loop",
                              !.year = call.date_obj.year,
                              !.month = call.date_obj.month + call.delta])

\* an iteration of "while month > 12" (lines 250-252)
ShiftUp ==
    /\ ShiftAt("first loop")
    /\ call.month > 12
    /\ ShiftStep([call EXCEPT !.year = month_up(call.year, call.month).year,
                              !.month = month_up(call.year, call.month).month,
                              !.iters = @ + 1])

\* the first loop's test fails
ShiftUpExit ==
    /\ ShiftAt("first loop")
    /\ ~ (call.month > 12)
    /\ ShiftStep([call EXCEPT !.pc = "second loop"])

\* an iteration of "while month < 1" (lines 253-255)
ShiftDown ==
    /\ ShiftAt("second loop")
    /\ call.month < 1
    /\ ShiftStep([call EXCEPT !.year = month_down(call.year, call.month).year,
                              !.month = month_down(call.year, call.month).month,
                              !.iters = @ + 1])

\* the second loop's test fails: return datetime.date(year, month, 1)
\* (line 256)
ShiftReturn ==
    /\ ShiftAt("second loop")
    /\ ~ (call.month < 1)
    /\ ShiftStep([call EXCEPT !.pc = "done",
                              !.result = datetime_date(call.year, call.month, 1)])

NextShift == ShiftEnter \/ ShiftUp \/ ShiftUpExit \/ ShiftDown \/ ShiftReturn

SpecShift == InitShift /\ [][NextShift]_vars

\* the interpreter keeps executing the call
FairShift == SpecShift /\ WF_vars(NextShift)

\* year * 12 + month - 1
MonthIndex(date_obj) == date_obj.year * 12 + date_obj.month - 1

ShiftDone == ShiftAt("done")

\* the month delta months from date_obj's is a month of datetime.date
ShiftInRange ==
    (MonthIndex(call.date_obj) + call.delta) \in (MINYEAR * 12) .. (MAXYEAR * 12 + 11)

\* the call returned day 1 of the month whose index is date_obj's plus delta
ShiftReturned ==
    /\ call.result.exc = ""
    /\ call.result.value.day = 1
    /\ call.result.value.month \in 1 .. 12
    /\ MonthIndex(call.result.value) = MonthIndex(call.date_obj) + call.delta

\* shifting the result back by delta gives day 1 of date_obj's month
ShiftRoundTrip ==
    shift_month_of(call.result.value, 0 - call.delta) =
        Return([year |-> call.date_obj.year, month |-> call.date_obj.month, day |-> 1])

\* C23 as stated: the call ends, and it returns the shifted month for
\* every date and every delta
C23_ShiftMonthEveryDelta == ShiftDone => (ShiftReturned /\ ShiftRoundTrip)

\* C23: shift_month terminates for every delta. When the month delta months
\* away lies within datetime.date's years 1 .. 9999 it returns day 1 of
\* that month, with month in 1 .. 12 and the year rolled forward or
\* backward, and shifting the result back by delta gives day 1 of the
\* date's month; otherwise datetime.date raises ValueError.
C23_ShiftMonth ==
    /\ <>ShiftDone
    /\ [](ShiftDone =>
            /\ call.result = shift_month_of(call.date_obj, call.delta)
            /\ ShiftInRange => (ShiftReturned /\ ShiftRoundTrip)
            /\ ~ ShiftInRange => call.result = Raise("ValueError"))

\* C23's case: from 28 January 2024, 25 months back, through three
\* iterations of the second loop to 1 December 2021
C23_Witness ==
    /\ ShiftDone
    /\ call.date_obj = [year |-> 2024, month |-> 1, day |-> 28]
    /\ call.delta = 0 - 25
    /\ call.iters = 3
    /\ call.result = Return([year |-> 2021, month |-> 12, day |-> 1])

-----------------------------------------------------------------------------
(* SpecLogin: one browser session in which two registered users log in and *)
(* out, src/habittracker.py lines 88-93, 200-218, 450-483                  *)

LoginUsers == {"u1", "u2"}
LoginSession == "tab 1"

\* the one habit each user tracks: A for u1, B for u2
HabitOf(u) == IF u = "u1" THEN <<"A">> ELSE <<"B">>

\* the blob of user u: its habit, not marked yet
BlobOf(u) ==
    [InitialData EXCEPT
        !.habits = [h \in {HabitOf(u)} |-> <<>>],
        !.goals = [h \in {HabitOf(u)} |-> 1],
        !.streaks = [h \in {HabitOf(u)} |->
                        [current |-> 0, longest |-> 0, last_update |-> strftime(Day0 - 1)]],
        !.habit_colors = [h \in {HabitOf(u)} |-> "#000000"]]

\* what is typed into the login form, and whether login_user accepts it
LoginClicks ==
    {[kind |-> "login", username |-> u, success |-> ok] :
        u \in LoginUsers, ok \in BOOLEAN}

InitLogin ==
    /\ today = Day0
    /\ db = [u \in LoginUsers |-> encrypt_json(BlobOf(u), SessionKey)]
    /\ sessions = [s \in {LoginSession} |-> NewSession(NoCookies)]
    /\ AppIdle
    /\ StreakIdle
    /\ AnalyticsIdle
    /\ CallIdle

\* the login screen was rendered in the session's last pass
LoginShown(s) ==
    /\ "logged_in" \in DOMAIN sessions[s].state
    /\ ~ sessions[s].state.logged_in

\* a run of the script without a click: the first one, or a rerun
LoginRender == ScriptPass(LoginSession, NoClick)

\* a click on Login
Login ==
    /\ LoginShown(LoginSession)
    /\ \E click \in LoginClicks : ScriptPass(LoginSession, click)

\* a click on Logout
Logout ==
    /\ DataShown(LoginSession)
    /\ ScriptPass(LoginSession, [kind |-> "logout"])

\* a click on a cell of the weekly grid
LoginToggle ==
    /\ DataShown(LoginSession)
    /\ \E click \in ToggleClicksOn(sessions[LoginSession].state.data) :
          ScriptPass(LoginSession, click)

NextLogin == LoginRender \/ Login \/ Logout \/ LoginToggle

SpecLogin == InitLogin /\ [][NextLogin]_vars

\* the blob holds the habit of user u and no other
BelongsToUser(blob, u) == DOMAIN blob.habits = {HabitOf(u)}

\* C24: the blob stored for a user is that user's, and in every pass that
\* reaches the data section the session data is the logged-in user's, also
\* after a logout and a login as another user.
C24_NoCrossUser ==
    /\ \A u \in LoginUsers : BelongsToUser(db[u].plain, u)
    /\ (PassEnded /\ call.reached) =>
           BelongsToUser(sessions[call.session].state.data, call.user_id)

\* C24, what the code does: the session data is loaded once per browser
\* session, so it stays the blob of the first user who reached the data
\* section, whoever is logged in
C24_LoadedOnce ==
    [][\A s \in DOMAIN sessions :
          "data" \in DOMAIN sessions[s].state =>
              /\ "data" \in DOMAIN sessions'[s].state
              /\ DOMAIN sessions'[s].state.data.habits
                     = DOMAIN sessions[s].state.data.habits]_vars

-----------------------------------------------------------------------------
(* SpecToggle: clicks on the cells of the weekly grid, in the tracker of   *)
(* src/habittracker.py (lines 606-623) and in the page of                  *)
(* src/pages/habittracker.py (lines 279-292)                               *)

\* the new outcome in src/pages/habittracker.py (lines 280-286): no branch
\* assigns new for another value, and the use of new raises NameError
pages_next_outcome(current_outcome) ==
    IF current_outcome = "None" THEN "succeeded"
    ELSE IF current_outcome = "succeeded" THEN "failed"
    ELSE IF current_outcome = "failed" THEN "None"
    ELSE "NameError"

\* the log after the click in src/pages/habittracker.py (lines 280-290)
pages_toggled_log(log, date_str) ==
    LET new == pages_next_outcome(Get(log, date_str)) IN
    IF new = "NameError" THEN log
    ELSE IF new = "None" THEN DictPop(log, date_str) ELSE DictSet(log, date_str, new)

\* the handler of a cell's button in src/pages/habittracker.py (279-292)
pages_toggle_outcome(dat, habit, date_str, tdy) ==
    LET d1 == [dat EXCEPT !.habits[habit] = pages_toggled_log(dat.habits[habit], date_str)]
    IN  IF pages_next_outcome(Get(dat.habits[habit], date_str)) = "NameError" THEN dat
        ELSE update_streaks_for_habit(d1, habit, d1.habits[habit], tdy)

\* the session data at the start: two habits, a journal entry and a task
ToggleData ==
    [habits |-> [h \in {<<"A">>, <<"B">>} |-> <<>>],
     goals |-> [h \in {<<"A">>, <<"B">>} |-> 1],
     streaks |-> <<>>,
     journal |-> [s \in {strftime(Day0)} |->
                     [feeling |-> <<"x">>, cause |-> <<>>,
                      timestamp |-> isoformat([date |-> Day0, hour |-> 9])]],
     todo |-> <<[id |-> 1, task |-> <<"t">>, completed |-> FALSE,
                 timestamp |-> isoformat([date |-> Day0, hour |-> 9]),
                 completed_at |-> "None"]>>,
     habit_colors |-> [h \in {<<"A">>, <<"B">>} |-> "#000000"]]

InitToggle ==
    /\ today = Day0
    /\ impl \in {"main", "pages"}
    /\ habit_data = <<>> /\ pc = "idle" /\ d = 0 /\ streak = 0 /\ iters = 0
    /\ inspected = {} /\ rec = Pending
    /\ data = ToggleData
    /\ store = ToggleData
    /\ pass_today = 0
    /\ ClockIdle
    /\ MultiIdle
    /\ AnalyticsIdle
    /\ CallIdle

\* the click continues a run of clicks on the same cell
SameCell(habit, date_str) ==
    /\ call # NoCall
    /\ call.habit = habit
    /\ call.date_str = date_str
    /\ call.count < 3

\* a pass that handles a click on the cell i of habit's row: the recompute
\* loop, then the handler; call keeps the session data the handler found,
\* the logs at the start of the run of clicks on this cell, and the length
\* of the run
CellPass(habit, i) ==
    /\ \E date_str \in {strftime(week_dates(today)[i])}, looped \in {Recompute(data, today)} :
          /\ data' = IF impl = "main"
                     THEN toggle_outcome(looped, habit, date_str, today)
                     ELSE pages_toggle_outcome(looped, habit, date_str, today)
          /\ call' = [fn |-> "toggle", habit |-> habit, date_str |-> date_str,
                      before |-> looped,
                      start |-> IF SameCell(habit, date_str) THEN call.start
                                ELSE data.habits,
                      count |-> IF SameCell(habit, date_str) THEN call.count + 1
                                ELSE 1]
    /\ store' = data'
    /\ pass_today' = today
    /\ UNCHANGED <<today, now_hour, uuids, streakVars, multiVars, anVars>>

ClickCell == \E habit \in DOMAIN data.habits, i \in 0 .. MaxCell : CellPass(habit, i)

\* midnight passes between two passes, once
ToggleTick ==
    /\ today = Day0
    /\ today' = today + 1
    /\ UNCHANGED <<streakVars, multiVars, appVars, anVars, callVars>>

NextToggle == ClickCell \/ ToggleTick

SpecToggle == InitToggle /\ [][NextToggle]_vars

\* unmarked -> succeeded -> failed -> unmarked
CycleNext(v) ==
    IF v = "None" THEN "succeeded" ELSE IF v = "succeeded" THEN "failed" ELSE "None"

\* between the session data a and b only the entry date_str of habit's log
\* moved, one step along the cycle, and habit's streak record
OnlyCellMoved(a, b, habit, date_str) ==
    /\ DOMAIN b.habits = DOMAIN a.habits
    /\ \A h \in DOMAIN a.habits \ {habit} : b.habits[h] = a.habits[h]
    /\ \A k \in (DOMAIN a.habits[habit] \cup DOMAIN b.habits[habit]) \ {date_str} :
          Get(b.habits[habit], k) = Get(a.habits[habit], k)
    /\ Get(b.habits[habit], date_str) = CycleNext(Get(a.habits[habit], date_str))
    /\ DOMAIN b.streaks \ {habit} = DOMAIN a.streaks \ {habit}
    /\ \A h \in DOMAIN a.streaks \ {habit} : b.streaks[h] = a.streaks[h]
    /\ b.goals = a.goals
    /\ b.journal = a.journal
    /\ b.todo = a.todo
    /\ b.habit_colors = a.habit_colors

\* C25: a click on a cell moves that entry one step along unmarked ->
\* succeeded -> failed -> unmarked and changes nothing but that entry and
\* that habit's streak record; three successive clicks on a cell restore
\* the logs exactly; every stored outcome is succeeded or failed.
C25_ToggleCycle ==
    /\ \A h \in DOMAIN data.habits : \A k \in DOMAIN data.habits[h] :
          data.habits[h][k] \in Outcomes
    /\ call # NoCall =>
          /\ OnlyCellMoved(call.before, data, call.habit, call.date_str)
          /\ call.count = 3 => data.habits = call.start

\* C25's case: the third click in a row on Tuesday's cell of habit A, which
\* was failed at the start of the run, while habit B holds an entry
C25_Witness ==
    /\ call # NoCall
    /\ call.count = 3
    /\ call.habit = <<"A">>
    /\ call.date_str = strftime(Day0 + 1)
    /\ Get(call.start[<<"A">>], call.date_str) = "failed"
    /\ Get(data.habits[<<"A">>], call.date_str) = "failed"
    /\ data.habits[<<"B">>] # <<>>

-----------------------------------------------------------------------------
(* SpecHabits: the passes that add, update, rename, remove and toggle      *)
(* habits, src/habittracker.py lines 462-467, 508-583 and 606-623, from a  *)
(* blob whose four maps hold the same habits                               *)

\* what the user can leave or type in a habit's "Habit name" field
HabitNameTexts == {<<"A">>, <<"B">>, <<>>}

\* the numbers the user can type into a goal field
TypedGoals == 0 .. MaxGoal

InitHabits ==
    /\ today = Day0
    /\ data = InitialData
    /\ store = data
    /\ pass_today = 0
    /\ ClockIdle
    /\ StreakIdle
    /\ MultiIdle
    /\ AnalyticsIdle
    /\ CallIdle

\* the pass ends with the session data dat, after the handler named kind
HabitsEnd(dat, kind) ==
    /\ data' = dat
    /\ store' = dat
    /\ pass_today' = today
    /\ call' = [fn |-> kind]
    /\ UNCHANGED <<today, now_hour, uuids, streakVars, multiVars, anVars>>

HabitsRender == HabitsEnd(Recompute(data, today), "render")

HabitsAdd ==
    \E looped \in {Recompute(data, today)}, text \in AddTexts, typed \in TypedGoals,
       new_color \in Colors :
        \E new_habit \in {strip(text)} :
            IF new_habit = <<>> \/ new_habit \in DOMAIN looped.habits
            THEN HabitsEnd(looped, "add rejected")
            ELSE HabitsEnd(add_habit(looped, new_habit, number_input(1, typed),
                                     new_color, today), "add")

HabitsUpdate ==
    \E looped \in {Recompute(data, today)}, habit \in DOMAIN data.habits,
       new_name_val \in HabitNameTexts, typed \in TypedGoals, new_color_val \in Colors :
        HabitsEnd(update_habit(looped, habit, new_name_val, number_input(1, typed),
                               new_color_val),
                  IF new_name_val # habit THEN "rename" ELSE "update")

HabitsRemove ==
    \E looped \in {Recompute(data, today)}, habit \in DOMAIN data.habits :
        HabitsEnd(remove_habit(looped, habit), "remove")

HabitsToggle ==
    \E looped \in {Recompute(data, today)}, habit \in DOMAIN data.habits :
        HabitsEnd(toggle_outcome(looped, habit, PersistCell, today), "toggle")

NextHabits == HabitsRender \/ HabitsAdd \/ HabitsUpdate \/ HabitsRemove \/ HabitsToggle

SpecHabits == InitHabits /\ [][NextHabits]_vars

\* C26: from a consistent blob, after every sequence of add, update,
\* rename, remove and toggle passes the maps habits, goals, streaks and
\* habit_colors hold the same keys, and every goal is an integer >= 1.
C26_MapsAgree ==
    /\ DOMAIN data.goals = DOMAIN data.habits
    /\ DOMAIN data.streaks = DOMAIN data.habits
    /\ DOMAIN data.habit_colors = DOMAIN data.habits
    /\ \A h \in DOMAIN data.goals : data.goals[h] \in Nat /\ data.goals[h] >= 1

\* C26's case: habit A with a marked day was renamed onto the existing
\* habit B, and 0 was typed as the goal
C26_Witness ==
    /\ call # NoCall
    /\ call.fn = "rename"
    /\ DOMAIN data.habits = {<<"B">>}
    /\ data.habits[<<"B">>] # <<>>
    /\ data.goals[<<"B">>] = 1
    /\ data.streaks[<<"B">>].longest = 1

-----------------------------------------------------------------------------
(* SpecNav: the Previous / Next buttons of the three analytics tabs, from  *)
(* the initialisation of the trackers, src/habittracker.py lines 453-460,  *)
(* 660-671, 802-816 and 953-967                                            *)

\* lines 453-460: the trackers of a session that starts on the day tdy
init_trackers(tdy) ==
    [week |-> tdy - weekday(tdy),
     month |-> date(year(tdy), month(tdy), 1),
     year |-> date(year(tdy), 1, 1)]

\* Previous Week that steps six days back
navigate_SixDays(kind, t) ==
    IF kind = "prev_week" THEN [t EXCEPT !.week = @ - 6]
    ELSE IF kind = "next_week" THEN [t EXCEPT !.week = @ + 7]
    ELSE IF kind = "prev_month" THEN [t EXCEPT !.month = shift_month(@, -1)]
    ELSE IF kind = "next_month" THEN [t EXCEPT !.month = shift_month(@, 1)]
    ELSE IF kind = "prev_year" THEN [t EXCEPT !.year = date(year(@) - 1, 1, 1)]
    ELSE IF kind = "next_year" THEN [t EXCEPT !.year = date(year(@) + 1, 1, 1)]
    ELSE t

\* the trackers after the handler of the button kind (lines 665-666,
\* 670-671, 810-811, 815-816, 961-962, 966-967)
navigate(kind, t) ==
    IF kind = "prev_week" THEN [t EXCEPT !.week = @ - 7]
    ELSE IF kind = "next_week" THEN [t EXCEPT !.week = @ + 7]
    ELSE IF kind = "prev_month" THEN [t EXCEPT !.month = shift_month(@, -1)]
    ELSE IF kind = "next_month" THEN [t EXCEPT !.month = shift_month(@, 1)]
    ELSE IF kind = "prev_year" THEN [t EXCEPT !.year = date(year(@) - 1, 1, 1)]
    ELSE IF kind = "next_year" THEN [t EXCEPT !.year = date(year(@) + 1, 1, 1)]
    ELSE t

NavKinds == {"prev_week", "next_week", "prev_month", "next_month", "prev_year", "next_year"}

\* the days a session starts on: Sun 2024-03-31 (after a February of 29
\* days), Sun 2024-12-29, Mon 2024-12-30 and Wed 2025-01-01
NavDays == {date(2024, 3, 31), Day0 - 1, Day0, Day0 + 2}

Trackers == [week |-> tracker_week, month |-> tracker_month, year |-> tracker_year]

\* the first pass of a session has initialised the trackers; call keeps
\* the day of the initialisation, the last two buttons clicked and the
\* trackers before each of them
InitNav ==
    /\ today \in NavDays
    /\ tracker_week = init_trackers(today).week
    /\ tracker_month = init_trackers(today).month
    /\ tracker_year = init_trackers(today).year
    /\ clicks = 0
    /\ view = NoView
    /\ call = [fn |-> "nav", init |-> today, last |-> "none", before |-> Trackers,
               prior |-> "none", earlier |-> Trackers]
    /\ data = EmptyData
    /\ store = EmptyData
    /\ pass_today = 0
    /\ ClockIdle
    /\ StreakIdle
    /\ MultiIdle

\* a pass that handles a click on the button kind
NavPass(kind) ==
    /\ clicks < MaxClicks
    /\ clicks' = clicks + 1
    /\ view' = analytics(data, tracker_week, tracker_month, tracker_year)
    /\ \E t \in {navigate(kind, Trackers)} :
          /\ tracker_week' = t.week
          /\ tracker_month' = t.month
          /\ tracker_year' = t.year
    /\ call' = [call EXCEPT !.last = kind, !.before = Trackers,
                            !.prior = call.last, !.earlier = call.before]
    /\ UNCHANGED <<today, streakVars, multiVars, appVars>>

NavWeek == NavPass("prev_week") \/ NavPass("next_week")
NavMonth == NavPass("prev_month") \/ NavPass("next_month")
NavYear == NavPass("prev_year") \/ NavPass("next_year")

NextNav == NavWeek \/ NavMonth \/ NavYear

SpecNav == InitNav /\ [][NextNav]_vars

\* the buttons kind and other are the Previous and the Next of one tab
Opposite(kind, other) ==
    \E p \in {"week", "month", "year"} :
        {kind, other} = {"prev_" \o p, "next_" \o p}

\* C27: tracker_week is always a Monday, and without a click its week
\* Monday .. Sunday holds the day it was initialised from; tracker_month is
\* always day 1 of a month and tracker_year always 1 January; a Previous
\* followed by a Next, or the reverse, brings the trackers back to their
\* earlier values.
C27_PeriodsAligned ==
    /\ weekday(tracker_week) = 0
    /\ day(tracker_month) = 1
    /\ day(tracker_year) = 1 /\ month(tracker_year) = 1
    /\ clicks = 0 => (tracker_week <= call.init /\ call.init <= tracker_week + 6)
    /\ Opposite(call.last, call.prior) => Trackers = call.earlier

\* C27's case: from Wed 2025-01-01, Previous Month to December 2024 and
\* Next Month back to 1 January 2025, after a Previous Week
C27_Witness ==
    /\ call.init = Day0 + 2
    /\ call.prior = "prev_month"
    /\ call.last = "next_month"
    /\ call.before.month = date(2024, 12, 1)
    /\ tracker_month = date(2025, 1, 1)
    /\ tracker_week = Day0 - 7

-----------------------------------------------------------------------------
(* The period a pass renders against the period it stores, under           *)
(* SpecAnalytics: current_week_start, current_month_start and              *)
(* current_year_start are read (lines 660, 802, 953) before the buttons    *)
(* are handled (lines 665-671, 810-816, 961-967), and nothing reruns the   *)
(* script after a click                                                    *)

\* C28: in the pass that handles a click on Previous / Next Week, Month or
\* Year, the period whose counts, goals and deltas are computed and
\* rendered is the shifted one: it equals tracker_week / tracker_month /
\* tracker_year at the end of the pass.
C28_RenderedPeriodIsStored ==
    view # NoView =>
        /\ view.weekly.start = tracker_week
        /\ view.monthly.start = tracker_month
        /\ view.yearly.start = tracker_year

-----------------------------------------------------------------------------
(* SpecEquiv: the two compute_current_streak functions on the same log and *)
(* today, src/habittracker.py lines 258-270 and src/pages/habittracker.py  *)
(* lines 90-124, over logs that also hold values the grid never writes     *)

\* what a stored log can hold: the two outcomes, and any other JSON value
LogValues == Outcomes \cup {"skipped"}

EquivDays == Day0 .. (Day0 + MaxSpan)

\* every log over the window's days
EquivLogs == UNION {[K -> LogValues] : K \in SUBSET {strftime(n) : n \in EquivDays}}

InitEquiv ==
    /\ habit_data \in EquivLogs
    /\ today \in EquivDays
    /\ impl = "main"
    /\ pc = "call"
    /\ d = 0
    /\ streak = 0
    /\ iters = 0
    /\ inspected = {}
    /\ rec = Pending
    /\ AppIdle
    /\ AnalyticsIdle
    /\ CallIdle
    /\ MultiIdle

\* both functions are called on habit_data and today
CallBoth ==
    /\ pc = "call"
    /\ pc' = "compared"
    /\ call' = [fn |-> "compute_current_streak",
                main |-> compute_current_streak(habit_data, today),
                pages |-> pages_compute_current_streak(habit_data, today)]
    /\ UNCHANGED <<habit_data, today, impl, d, streak, iters, inspected, rec>>
    /\ UNCHANGED <<appVars, anVars, multiVars>>

NextEquiv == CallBoth

SpecEquiv == InitEquiv /\ [][NextEquiv]_vars

\* C29: the compute_current_streak of src/habittracker.py and the one of
\* src/pages/habittracker.py return the same value for every log and every
\* today, also when the log holds values that are neither succeeded nor
\* failed.
C29_SameCurrentStreak ==
    pc = "compared" => call.main = call.pages

\* C29's case: today holds a value that is neither outcome, after two
\* succeeded days, and both functions return 0
C29_Witness ==
    /\ pc = "compared"
    /\ today = Day0 + 2
    /\ Get(habit_data, strftime(Day0)) = "succeeded"
    /\ Get(habit_data, strftime(Day0 + 1)) = "succeeded"
    /\ Get(habit_data, strftime(today)) = "skipped"
    /\ call.main = 0
    /\ call.pages = 0

-----------------------------------------------------------------------------
(* SpecAdvance: the cached streak record of one habit when the day changes *)
(* under an unchanged log, and when a succeeded day of the log is failed   *)
(* or un-marked; src/habittracker.py lines 258-309 and 462-467             *)

\* every log of the two outcomes over the window's days
AdvanceLogs == UNION {[K -> Outcomes] : K \in SUBSET {strftime(n) : n \in StreakDays}}

\* a pass on the day today has stored the habit's record
InitAdvance ==
    /\ habit_data \in AdvanceLogs
    /\ today \in StreakDays
    /\ rec = data_to_store(habit_data, today)
    /\ pc = "stored"
    /\ impl = "main"
    /\ d = 0
    /\ streak = 0
    /\ iters = 0
    /\ inspected = {}
    /\ AppIdle
    /\ AnalyticsIdle
    /\ CallIdle
    /\ MultiIdle

\* the pass that replaces the log by log on the day tdy: the recompute loop
\* (lines 462-467) stores the record anew
AdvancePass(kind, n, log, tdy) ==
    /\ pc = "stored"
    /\ pc' = kind
    /\ habit_data' = log
    /\ today' = tdy
    /\ rec' = data_to_store(log, tdy)
    /\ call' = [fn |-> kind, day |-> n, before |-> rec, log |-> habit_data]
    /\ UNCHANGED <<impl, d, streak, iters, inspected>>
    /\ UNCHANGED <<appVars, anVars, multiVars>>

\* midnight passes and the next pass runs with the same log
Advance == AdvancePass("advanced", today, habit_data, today + 1)

\* the cell of a succeeded day of the grid's week is clicked: the day
\* becomes failed (lines 611-623)
FailDay ==
    \E i \in 0 .. 6 :
        /\ week_dates(today)[i] \in StreakDays
        /\ Marked(habit_data, week_dates(today)[i])
        /\ AdvancePass("failed", week_dates(today)[i],
                       toggled_log(habit_data, strftime(week_dates(today)[i])), today)

\* the same cell is clicked again: the entry is removed (lines 611-623);
\* call keeps the record and the log from before the first click
UnmarkDay ==
    /\ pc = "failed"
    /\ pc' = "unmarked"
    /\ habit_data' = toggled_log(habit_data, strftime(call.day))
    /\ rec' = data_to_store(habit_data', today)
    /\ UNCHANGED <<today, impl, d, streak, iters, inspected>>
    /\ UNCHANGED <<appVars, anVars, callVars, multiVars>>

NextAdvance == Advance \/ FailDay \/ UnmarkDay

SpecAdvance == InitAdvance /\ [][NextAdvance]_vars

\* the days up to tdy joined to day n by succeeded days only
RunOf(log, n, tdy) ==
    {m \in StreakDays :
        /\ m <= tdy
        /\ \A k \in StreakDays : ((m <= k /\ k <= n) \/ (n <= k /\ k <= m)) => Marked(log, k)}

\* day n lies in the run of succeeded days up to tdy that is longer than
\* every other one
InLongestRun(log, n, tdy) ==
    /\ n <= tdy
    /\ Marked(log, n)
    /\ \A m \in StreakDays :
          (m <= tdy /\ Marked(log, m) /\ m \notin RunOf(log, n, tdy))
              => Cardinality(RunOf(log, m, tdy)) < Cardinality(RunOf(log, n, tdy))

\* the log has no entry dated after day n
NoEntryAfter(log, n) == \A k \in DOMAIN log : strptime(k) <= n

=============================================================================
